---- MODULE Spec2Model ----
(***************************************************************************)
(* protrust: the protoc plugin that lowers protobuf descriptors to Rust    *)
(* source.  The module models the plugin entry point                       *)
(* RustGenerator::GenerateAll, the index driver RustModGenerator::Generate *)
(* and the per-descriptor emitters as they are written in                  *)
(* src/protrustc/src/protrust/compiler.                                    *)
(*                                                                         *)
(* Text.  A descriptor name, a parameter string and an output path are     *)
(* sequences of one-character strings, so that the character loops of the  *)
(* helpers are computed as the code computes them.  Printed text is a      *)
(* sequence of Print records [k, ind, args]: k names the template of one   *)
(* printer call,        ind is the printer's indentation level at the call  *)
(* and args are the values substituted into the template, as strings.      *)
(*                                                                         *)
(* Specifications.  Spec is a GenerateAll request run twice; SpecMsg is    *)
(* RustMessageGenerator::Generate on one message; SpecName, SpecField and  *)
(* SpecEnum are the naming helpers, the methods of a field generator and   *)
(* RustEnumGenerator::Generate, each called on its own on one argument;    *)
(* SpecShape is one iteration of the index loop on one file: its part of   *)
(* the index and the text of its Rust file.                                *)
(***************************************************************************)
EXTENDS Integers, Sequences, FiniteSets

VARIABLES
    files,          \* GenerateAll argument: the input file descriptors, request order
    parameter,      \* GenerateAll argument: the plugin parameter string
    failing,        \* the context: ordinal of the Open call that fails (0: none)
    run,            \* which GenerateAll call of the process this is (1 or 2)
    pc,             \* position inside GenerateAll / RustModGenerator::Generate
    options,        \* rust_generator.cpp:36  vector of (key, value) pairs
    oi,             \* rust_generator.cpp:41  loop index i
    cli_options,    \* rust_generator.cpp:39  struct Options
    error,          \* *error out-parameter
    ret,            \* return value of GenerateAll: "none" until it returns
    opened,         \* paths handed to context->Open, in call order
    streams,        \* one record per Open call: what the generator wrote to it
    held,           \* indices of streams held by a live io::Printer
    fi,             \* rust_mod_generator.cpp:30 loop index i (1-based)
    prev,           \* outcome of the first GenerateAll call, kept for comparison
    words,          \* rust_helpers.cpp:260  the static set of Escape; {} until constructed
    msg,            \* message descriptor handed to RustMessageGenerator
    mpc,            \* position of the stand-alone message generator
    mout,           \* its printer
    mreads,         \* the indexed descriptor reads it made, in order
    arg,            \* argument of a helper or emitter called on its own
    upc,            \* position of that call
    uout            \* what the call returned or printed

vars == <<files, parameter, failing, run, pc, options, oi, cli_options, error,
          ret, opened, streams, held, fi, prev, words, msg, mpc, mout,
          mreads, arg, upc, uout>>

driverVars == <<files, parameter, failing, run, pc, options, oi, cli_options,
                error, ret, opened, streams, held, fi, prev>>

msgVars == <<msg, mpc, mout, mreads>>

unitVars == <<arg, upc, uout>>

-----------------------------------------------------------------------------
(* Bounds of the model.                                                    *)

MaxFiles == 2       \* longest list of input files
MaxOpts == 2        \* most comma-separated pieces in the parameter string
MaxFields == 2      \* most fields of a generated stand-alone message
MaxName == 3        \* longest simple name built from NameAlphabet
MaxDepth == 2       \* deepest nesting of a referenced message or enum
MaxValues == 2      \* most values of a generated stand-alone enum

-----------------------------------------------------------------------------
(* Characters and strings.                                                 *)

Upper == <<"A","B","C","D","E","F","G","H","I","J","K","L","M",
           "N","O","P","Q","R","S","T","U","V","W","X","Y","Z">>
Lower == <<"a","b","c","d","e","f","g","h","i","j","k","l","m",
           "n","o","p","q","r","s","t","u","v","w","x","y","z">>

IndexIn(c, alphabet) ==
    IF \E i \in 1..Len(alphabet) : alphabet[i] = c
    THEN CHOOSE i \in 1..Len(alphabet) : alphabet[i] = c
    ELSE 0

IsUpper(c) == IndexIn(c, Upper) # 0
IsLower(c) == IndexIn(c, Lower) # 0

\* c + ('a' - 'A') for an upper-case c
ToLowerChar(c) == Lower[IndexIn(c, Upper)]

\* toupper(c)
ToUpperChar(c) == IF IsLower(c) THEN Upper[IndexIn(c, Lower)] ELSE c

RECURSIVE Join(_)
Join(cs) == IF cs = <<>> THEN "" ELSE Head(cs) \o Join(Tail(cs))

Digits == <<"0","1","2","3","4","5","6","7","8","9">>

RECURSIVE DecNat(_)
DecNat(n) == IF n < 10 THEN <<Digits[n + 1]>>
             ELSE DecNat(n \div 10) \o <<Digits[(n % 10) + 1]>>

\* std::to_string of an integer
to_string(n) == IF n < 0 THEN <<"-">> \o DecNat(-n) ELSE DecNat(n)

EndsWith(s, suffix) ==
    /\ Len(suffix) <= Len(s)
    /\ SubSeq(s, Len(s) - Len(suffix) + 1, Len(s)) = suffix

IsPrefix(s, t) == Len(s) <= Len(t) /\ SubSeq(t, 1, Len(s)) = s

\* position of the first occurrence of character c in s, 0 when absent
FindFirst(s, c) ==
    IF \E i \in 1..Len(s) : s[i] = c
    THEN CHOOSE i \in 1..Len(s) : s[i] = c /\ \A j \in 1..(i - 1) : s[j] # c
    ELSE 0

-----------------------------------------------------------------------------
(* Literals of the source, spelled as character sequences.                 *)

S_file_extension == <<"f","i","l","e","_","e","x","t","e","n","s","i","o","n">>
S_imports == <<"i","m","p","o","r","t","s">>
S_mod_rs == <<"m","o","d",".","r","s">>
S_protrust == <<"p","r","o","t","r","u","s","t">>
S_dot_rs == <<".","r","s">>
S_unknown_option == <<"U","n","k","n","o","w","n"," ","g","e","n","e","r","a","t","o","r",
                      " ","o","p","t","i","o","n",":"," ">>

-----------------------------------------------------------------------------
(* Options (rust_options.h) and the parameter string.                      *)

\* Options::Options(): file_extension(".rs"), imports empty
DefaultOptions == [file_extension |-> S_dot_rs, imports |-> <<>>]

\* "struct Options cli_options;" is a local of GenerateAll: every call starts
\* from a freshly constructed record, whatever the previous call left.
StaticOptions(left) == left
NewOptions(left) == DefaultOptions

\* google::protobuf::Split(text, delim, skip_empty = true)
RECURSIVE SplitSkipEmpty(_, _)
SplitSkipEmpty(s, d) ==
    IF s = <<>> THEN <<>>
    ELSE LET p == FindFirst(s, d) IN
         IF p = 0 THEN <<s>>
         ELSE (IF p = 1 THEN <<>> ELSE <<SubSeq(s, 1, p - 1)>>)
              \o SplitSkipEmpty(SubSeq(s, p + 1, Len(s)), d)

\* one piece of the parameter: cut at the first '=', no '=' gives an empty value
KeyValue(part) ==
    LET e == FindFirst(part, "=") IN
    IF e = 0 THEN <<part, <<>>>>
    ELSE <<SubSeq(part, 1, e - 1), SubSeq(part, e + 1, Len(part))>>

\* google::protobuf::compiler::ParseGeneratorParameter, the splitter of the
\* plugin API called at rust_generator.cpp:37
ParseGeneratorParameter(text) ==
    LET parts == SplitSkipEmpty(text, ",") IN
    [i \in 1..Len(parts) |-> KeyValue(parts[i])]

\* while (getline(ss, buf, ',')) imports.push_back(buf): the pieces between
\* commas; a trailing comma yields no empty last piece
RECURSIVE GetlineSplit(_)
GetlineSplit(s) ==
    IF s = <<>> THEN <<>>
    ELSE LET p == FindFirst(s, ",") IN
         IF p = 0 THEN <<s>>
         ELSE <<SubSeq(s, 1, p - 1)>> \o GetlineSplit(SubSeq(s, p + 1, Len(s)))

\* "Unknown generator option: " + options[i].first
UnknownOptionError(key) == S_unknown_option \o key

-----------------------------------------------------------------------------
(* io::Printer: a sink of Print records plus an indentation level.         *)

NewPrinter == [out |-> <<>>, indent |-> 0]

PrinterPrint(p, k, args) ==
    [p EXCEPT !.out = Append(@, [k |-> k, ind |-> p.indent, args |-> args])]

Indent(p) == [p EXCEPT !.indent = @ + 1]

\* Printer::Outdent refuses to go below zero
Outdent(p) == [p EXCEPT !.indent = IF @ = 0 THEN 0 ELSE @ - 1]

\* A generator is modelled by the calls it makes on its printer, in order:
\* printer->Print(text, args...), printer->Indent(), printer->Outdent().
Say(k, args) == <<[op |-> "Print", k |-> k, args |-> args]>>

In == <<[op |-> "Indent", k |-> "", args |-> <<>>]>>

Out == <<[op |-> "Outdent", k |-> "", args |-> <<>>]>>

\* one call made on printer p
Call(p, c) ==
    CASE c.op = "Print" -> PrinterPrint(p, c.k, c.args)
      [] c.op = "Indent" -> Indent(p)
      [] c.op = "Outdent" -> Outdent(p)

\* the calls made one after the other on p.  The sequence is halved, and the
\* printer after the first half is computed before the second half begins,
\* so that the evaluation stays shallow; an indentation is never negative.
RECURSIVE Run(_, _)
Run(p, calls) ==
    IF Len(calls) = 0 THEN p
    ELSE IF Len(calls) = 1 THEN Call(p, calls[1])
    ELSE LET half == Len(calls) \div 2
             q == Run(p, SubSeq(calls, 1, half))
         IN  IF q.indent >= 0 THEN Run(q, SubSeq(calls, half + 1, Len(calls)))
                              ELSE q

\* a for loop over a descriptor's children, for (i = 0; i < n; i++) { ... }:
\* bodies[i] is the printer calls of iteration i, made in index order
RECURSIVE ForEach(_)
ForEach(bodies) ==
    IF Len(bodies) = 0 THEN <<>>
    ELSE Head(bodies) \o ForEach(Tail(bodies))

-----------------------------------------------------------------------------
(* Naming and escaping (rust_helpers.cpp, rust_names.h).                   *)

ReservedWords ==
    {"as", "break", "const", "continue", "else", "enum", "false", "fn",
     "for", "if", "impl", "in", "let", "loop", "match", "mod", "move", "mut",
     "pub", "ref", "return", "static", "struct", "trait", "true", "type", "unsafe",
     "use", "where", "while", "dyn", "abstract", "become", "box", "do", "final",
     "macro", "override", "priv", "typeof", "unsized", "virtual", "yield", "async",
     "await", "try"}

\* The set is a function-local static: it is constructed from ReservedWords
\* by the first call of Escape in the process, and read by every call.
WordsAfterEscape == IF words = {} THEN ReservedWords ELSE words

Escape(str) == IF Join(str) \in WordsAfterEscape THEN <<"r", "#">> \o str ELSE str

GetMessageName(descriptor) == Escape(descriptor.name)
GetEnumName(descriptor) == Escape(descriptor.name)
\* the value's name as declared, not escaped
GetEnumValueNameDeclared(descriptor) == descriptor.name

GetEnumValueName(descriptor) == Escape(descriptor.name)
GetFieldName(descriptor) == Escape(descriptor.name)

\* last_capped is initialised to false and never assigned in the loop
RECURSIVE ModNameFrom(_, _, _)
ModNameFrom(input, i, last_capped) ==
    IF i > Len(input) THEN <<>>
    ELSE IF IsUpper(input[i])
         THEN (IF i # 1 /\ ~last_capped THEN <<"_">> ELSE <<>>)
              \o <<ToLowerChar(input[i])>>
              \o ModNameFrom(input, i + 1, last_capped)
         ELSE <<input[i]>> \o ModNameFrom(input, i + 1, last_capped)

GetMessageModName(descriptor) == ModNameFrom(descriptor.name, 1, FALSE)

\* the directory part of the file's name instead of the name
GetFileDirPathParent(file) ==
    IF \E i \in 1..Len(file.name) : file.name[i] = "/"
    THEN SubSeq(file.name, 1,
                (CHOOSE i \in 1..Len(file.name) :
                    /\ file.name[i] = "/"
                    /\ \A j \in (i + 1)..Len(file.name) : file.name[j] # "/") - 1)
    ELSE <<>>

GetFileDirPath(file) == file.name

\* the path without the file's directory
GetOutputFilePathFlat(file, import_name) == import_name \o S_dot_rs

GetOutputFilePath(file, import_name) ==
    GetFileDirPath(file) \o <<"/">> \o import_name \o S_dot_rs

\* the loop with digits kept as they are
GetFileModNameKeepingDigits(input) ==
    [i \in 1..Len(input) |->
        IF IsUpper(input[i]) \/ IsLower(input[i]) \/ IndexIn(input[i], Digits) # 0
        THEN input[i] ELSE "_"]

GetFileModNameOf(input) ==
    [i \in 1..Len(input) |->
        IF IsUpper(input[i]) \/ IsLower(input[i]) THEN input[i] ELSE "_"]

GetFileModName(file) == GetFileModNameOf(file.name)

UpperOf(input) == [i \in 1..Len(input) |-> ToUpperChar(input[i])]

GetFieldNumberName(descriptor) == Join(UpperOf(descriptor.name)) \o "_NUMBER"
GetFieldDefaultName(descriptor) == Join(UpperOf(descriptor.name)) \o "_DEFAULT"

HasInnerItems(descriptor) ==
    \/ Len(descriptor.nested_type) # 0
    \/ Len(descriptor.enum_type) # 0
    \/ Len(descriptor.extension) # 0
    \/ descriptor.oneof_decl_count # 0

\* the test answering yes for every syntax
IsAnyFile(file) == file.syntax \in {"proto2", "proto3"}

IsProto2File(file) == file.syntax = "proto2"

-----------------------------------------------------------------------------
(* The descriptor object model, as far as the generators read it.          *)
(*   file:    [name, syntax, dependency, message_type, enum_type, extension] *)
(*   message: [name, field, nested_type, enum_type, extension,             *)
(*             extension_range_count, oneof_decl_count]                     *)
(*   enum:    [name, value], value: [name, number]                         *)
(*   field:   [name, number, type, label, file, is_map, is_packed, target, *)
(*             map_key, map_value, default_int, default_bool,              *)
(*             default_string, default_enum]                               *)
(*   target (the message or enum a field refers to):                       *)
(*            [name, file, containing], containing listing the simple      *)
(*            names of the enclosing messages from the innermost outwards  *)

NoTarget == [name |-> <<>>, file |-> <<>>, containing |-> <<>>]

is_repeated(field) == field.label = "repeated"

\* FieldDescriptor::message_type() is set for message and group fields only
HasMessageType(field) == field.type \in {"MESSAGE", "GROUP"}

\* FieldDescriptor::is_packable(): repeated and of a scalar numeric type
is_packable(field) ==
    is_repeated(field) /\ field.type \notin {"STRING", "GROUP", "MESSAGE", "BYTES"}

-----------------------------------------------------------------------------
(* Wire helpers (rust_field_generator.cpp, rust_field_generator.h).        *)

WT_VARINT == 0
WT_BIT64 == 1
WT_LENGTH_DELIMITED == 2
WT_START_GROUP == 3
WT_END_GROUP == 4
WT_BIT32 == 5

\* every type on the wire as a length-delimited value
GetWireTypeLengthDelimited(field_type) == WT_LENGTH_DELIMITED

GetWireType(field_type) ==
    CASE field_type \in {"FIXED64", "SFIXED64", "DOUBLE"} -> WT_BIT64
      [] field_type \in {"FIXED32", "SFIXED32", "FLOAT"} -> WT_BIT32
      [] field_type \in {"INT32", "INT64", "UINT32", "UINT64", "SINT32", "SINT64",
                         "BOOL", "ENUM"} -> WT_VARINT
      [] field_type \in {"MESSAGE", "BYTES", "STRING"} -> WT_LENGTH_DELIMITED
      [] field_type = "GROUP" -> WT_START_GROUP

\* A uint has 32 bits.  It is kept as two halves of 16 bits, [hi, lo] with
\* value hi * UintHalf + lo, so that no operation on it leaves the integers
\* of the checker.
UintHalf == 65536

\* the tag with the top bit of the 32 dropped
MakeTagWithoutTopBit(number, wt) ==
    [hi |-> (number \div 8192) % 32768,
     lo |-> (number % 8192) * 8 + wt]

\* static_cast<uint>((number << 3) | wt) for number >= 0: the shift moves
\* the low 13 bits of number into lo and the next 16 bits into hi and drops
\* the bits above; wt < 8, so the or with the shifted value is an addition
MakeTag(number, wt) ==
    [hi |-> (number \div 8192) % UintHalf,
     lo |-> (number % 8192) * 8 + wt]

\* std::to_string(unsigned): the decimal digits, by division by ten
RECURSIVE to_string_uint(_)
to_string_uint(u) ==
    LET t == (u.hi % 10) * UintHalf + u.lo
        q == [hi |-> u.hi \div 10, lo |-> t \div 10]
    IN  IF q.hi = 0 /\ q.lo = 0 THEN <<Digits[(t % 10) + 1]>>
        ELSE to_string_uint(q) \o <<Digits[(t % 10) + 1]>>

-----------------------------------------------------------------------------
(* Type mapping (rust_helpers.cpp).                                        *)

\* the enclosing modules in the order the walk finds them, innermost first
RECURSIVE ParentsPathInnermostFirst(_, _)
ParentsPathInnermostFirst(containing, i) ==
    IF i = 0 THEN ""
    ELSE ParentsPathInnermostFirst(containing, i - 1)
         \o Join(GetMessageModName([name |-> containing[i]])) \o "::"

\* parents.push_back(containing_type) walking outwards, then the reverse
\* iteration appending GetMessageModName(parent) + "::"
RECURSIVE ParentsPath(_, _)
ParentsPath(containing, i) ==
    IF i = 0 THEN ""
    ELSE Join(GetMessageModName([name |-> containing[i]])) \o "::"
         \o ParentsPath(containing, i - 1)

\* "__file::", the "__imports::<file mod>::" segment when the files differ,
\* the enclosing modules and the escaped simple name
TypePath(field, target) ==
    "__file::"
    \o (IF field.file.name # target.file
        THEN "__imports::" \o Join(GetFileModNameOf(target.file)) \o "::"
        ELSE "")
    \o ParentsPath(target.containing, Len(target.containing))
    \o Join(Escape(target.name))

GetRustType(field) ==
    CASE field.type = "BOOL" -> "__prelude::bool"
      [] field.type = "BYTES" -> "__prelude::ByteVec"
      [] field.type = "DOUBLE" -> "__prelude::f64"
      [] field.type = "ENUM" -> TypePath(field, field.target)
      [] field.type \in {"FIXED32", "UINT32"} -> "__prelude::u32"
      [] field.type \in {"FIXED64", "UINT64"} -> "__prelude::u64"
      [] field.type = "FLOAT" -> "__prelude::f32"
      [] field.type \in {"GROUP", "MESSAGE"} -> TypePath(field, field.target)
      [] field.type \in {"INT32", "SFIXED32", "SINT32"} -> "__prelude::i32"
      [] field.type \in {"INT64", "SFIXED64", "SINT64"} -> "__prelude::i64"
      [] field.type = "STRING" -> "__prelude::String"
      [] OTHER -> ""

GetRawFieldType(field) ==
    CASE field.type = "BOOL" -> "__prelude::pr::Bool"
      [] field.type = "BYTES" -> "__prelude::pr::Bytes<" \o GetRustType(field) \o ">"
      [] field.type = "DOUBLE" -> "__prelude::pr::Double"
      [] field.type = "ENUM" -> "__prelude::pr::Enum<" \o GetRustType(field) \o ">"
      [] field.type = "FIXED32" -> "__prelude::pr::Fixed32"
      [] field.type = "FIXED64" -> "__prelude::pr::Fixed64"
      [] field.type = "FLOAT" -> "__prelude::pr::Float"
      [] field.type = "GROUP" -> "__prelude::pr::Group<" \o GetRustType(field) \o ">"
      [] field.type = "INT32" -> "__prelude::pr::Int32"
      [] field.type = "INT64" -> "__prelude::pr::Int64"
      [] field.type = "MESSAGE" -> "__prelude::pr::Message<" \o GetRustType(field) \o ">"
      [] field.type = "SFIXED32" -> "__prelude::pr::Sfixed32"
      [] field.type = "SFIXED64" -> "__prelude::pr::Sfixed64"
      [] field.type = "SINT32" -> "__prelude::pr::Sint32"
      [] field.type = "SINT64" -> "__prelude::pr::Sint64"
      [] field.type = "STRING" -> "__prelude::pr::String"
      [] field.type = "UINT32" -> "__prelude::pr::Uint32"
      [] field.type = "UINT64" -> "__prelude::pr::Uint64"
      [] OTHER -> ""

IsRustCopyable(field) == field.type \notin {"BYTES", "GROUP", "MESSAGE", "STRING"}

GetDefaultType(field) ==
    CASE field.type = "BYTES" -> "&'static [__prelude::u8]"
      [] field.type = "STRING" -> "&'static __prelude::str"
      [] OTHER -> GetRustType(field)

GetDefaultTypeRef(field) ==
    CASE field.type = "BYTES" -> "&[__prelude::u8]"
      [] field.type = "STRING" -> "&__prelude::str"
      [] OTHER -> GetRustType(field)

\* std::to_string of a float or double prints six decimals; the defaults of
\* the model are whole numbers
GetDefaultValue(field) ==
    CASE field.type = "BOOL" -> IF field.default_bool THEN "true" ELSE "false"
      [] field.type = "BYTES" -> "b\"" \o Join(field.default_string) \o "\""
      [] field.type \in {"DOUBLE", "FLOAT"} ->
            Join(to_string(field.default_int)) \o ".000000"
      [] field.type = "ENUM" ->
            TypePath(field, field.target) \o "::"
            \o Join(GetEnumValueName([name |-> field.default_enum]))
      [] field.type \in {"FIXED32", "UINT32", "FIXED64", "UINT64", "INT32", "SFIXED32",
                         "SINT32", "INT64", "SFIXED64", "SINT64"} ->
            Join(to_string(field.default_int))
      [] field.type = "STRING" -> "\"" \o Join(field.default_string) \o "\""
      [] OTHER -> ""

-----------------------------------------------------------------------------
(* Field generators (rust_field_generator.cpp and its four variants).      *)

CreateFieldGenerator(field) ==
    IF is_repeated(field)
    THEN (IF field.is_map THEN "map" ELSE "repeated")
    ELSE IF HasMessageType(field) THEN "message" ELSE "primitive"

\* RustRepeatedFieldGenerator::GetImplGenericArg and its map override
GetImplGenericArg(field) ==
    IF CreateFieldGenerator(field) = "map"
    THEN "(" \o GetRawFieldType(field.map_key) \o ", "
             \o GetRawFieldType(field.map_value) \o ")"
    ELSE GetRawFieldType(field)

\* GetFieldType of the four variants
GetFieldType(field) ==
    CASE CreateFieldGenerator(field) = "primitive" ->
            IF IsProto2File(field.file)
            THEN "__prelude::Option<" \o GetRustType(field) \o ">"
            ELSE GetRustType(field)
      [] CreateFieldGenerator(field) = "message" ->
            "__prelude::Option<__prelude::Box<" \o GetRustType(field) \o ">>"
      [] CreateFieldGenerator(field) = "repeated" ->
            "__prelude::RepeatedField<" \o GetRustType(field) \o ">"
      [] CreateFieldGenerator(field) = "map" ->
            "__prelude::MapField<" \o GetRustType(field.map_key) \o ", "
                \o GetRustType(field.map_value) \o ">"

TagText(field, wt) == Join(to_string_uint(MakeTag(field.number, wt)))

GenerateStructField(field) ==
    Say("struct_field", <<Join(GetFieldName(field)), GetFieldType(field)>>)

GenerateFieldNumberConst(field) ==
    Say("field_number_const",
        <<GetFieldNumberName(field), Join(to_string(field.number))>>)

PrimitiveMergeBranches(field) ==
    Say(IF IsProto2File(field.file) THEN "merge.primitive.proto2"
                                    ELSE "merge.primitive.proto3",
        <<TagText(field, GetWireType(field.type)), GetRawFieldType(field),
          GetFieldNumberName(field), Join(GetFieldName(field))>>)

MessageMergeBranches(field) ==
    Say("merge.message",
        <<TagText(field, GetWireType(field.type)), GetRawFieldType(field),
          GetFieldNumberName(field), Join(field.name)>>)

\* the branches without the test of is_packed(): unpacked arm first
RepeatedMergeBranchesUnpackedFirst(field) ==
    Say(IF is_packable(field) THEN "merge.repeated.unpacked_packed"
                              ELSE "merge.repeated.unpacked",
        <<IF is_packable(field) THEN TagText(field, WT_LENGTH_DELIMITED) ELSE "",
          TagText(field, GetWireType(field.type)), GetImplGenericArg(field),
          GetFieldNumberName(field), Join(field.name)>>)

\* one Print whose text has the packed arm first, the unpacked arm first, or
\* the unpacked arm alone; args are <<packed, unpacked, arg, num, name>>
RepeatedMergeBranches(field) ==
    Say(IF is_packable(field)
        THEN (IF field.is_packed THEN "merge.repeated.packed_unpacked"
                                 ELSE "merge.repeated.unpacked_packed")
        ELSE "merge.repeated.unpacked",
        <<IF is_packable(field) THEN TagText(field, WT_LENGTH_DELIMITED) ELSE "",
          TagText(field, GetWireType(field.type)), GetImplGenericArg(field),
          GetFieldNumberName(field), Join(field.name)>>)

\* the match arms in the text of a merge Print r, first to last: the tag an
\* arm matches and the type argument of its merge_value / add_entries_to
MergeArms(r) ==
    LET packed == [tag |-> r.args[1],
                   type |-> "__prelude::pr::Packed<" \o r.args[3] \o ">"]
        unpacked == [tag |-> r.args[2], type |-> r.args[3]]
    IN  CASE r.k = "merge.repeated.packed_unpacked" -> <<packed, unpacked>>
          [] r.k = "merge.repeated.unpacked_packed" -> <<unpacked, packed>>
          [] r.k = "merge.repeated.unpacked" -> <<unpacked>>
          [] r.k \in {"merge.primitive.proto2", "merge.primitive.proto3",
                      "merge.message"} -> <<[tag |-> r.args[1], type |-> r.args[2]]>>
          [] OTHER -> <<>>

GenerateMergeBranches(field) ==
    CASE CreateFieldGenerator(field) = "primitive" -> PrimitiveMergeBranches(field)
      [] CreateFieldGenerator(field) = "message" -> MessageMergeBranches(field)
      [] OTHER -> RepeatedMergeBranches(field)

\* the repeated variant's size and write statements: the packed text when
\* the field is packed, the plain one otherwise; args are <<arg, num, name>>
RepeatedStatement(field, packed, plain) ==
    Say(IF field.is_packed THEN packed ELSE plain,
        <<GetImplGenericArg(field), GetFieldNumberName(field), Join(field.name)>>)

\* empty for the primitive and the message variant
GenerateCalculateSize(field) ==
    IF CreateFieldGenerator(field) \in {"repeated", "map"}
    THEN RepeatedStatement(field, "size.repeated.packed", "size.repeated")
    ELSE <<>>

\* empty for the primitive and the message variant
GenerateWriteTo(field) ==
    IF CreateFieldGenerator(field) \in {"repeated", "map"}
    THEN RepeatedStatement(field, "write.repeated.packed", "write.repeated")
    ELSE <<>>

\* empty for the primitive and the message variant
GenerateIsInitialized(field) ==
    IF CreateFieldGenerator(field) \in {"repeated", "map"}
    THEN Say("init.repeated", <<Join(field.name)>>)
    ELSE <<>>

PrimitiveItems(field) ==
    Say(IF IsProto2File(field.file)
        THEN (IF IsRustCopyable(field) THEN "items.primitive.proto2.copy"
                                       ELSE "items.primitive.proto2.ref")
        ELSE "items.primitive.proto3",
        <<Join(GetFieldName(field)), Join(field.name), GetRustType(field),
          GetFieldDefaultName(field), GetDefaultType(field), GetDefaultTypeRef(field),
          GetDefaultValue(field)>>)

MessageItems(field) ==
    Say("items.message",
        <<Join(GetFieldName(field)), Join(field.name), GetRustType(field)>>)

RepeatedItems(field) ==
    Say("items.repeated", <<Join(GetFieldName(field)), GetFieldType(field)>>)

\* what the text of a primitive field's Prints declares: the keyword of the
\* default, the functions of the accessor block in order, each named
\* prefix + the field's name + suffix, and the place a merge arm merges into
DefaultKeyword(r) ==
    CASE r.k \in {"items.primitive.proto2.copy", "items.primitive.proto2.ref"} -> "const"
      [] r.k = "items.primitive.proto3" -> "static"
      [] OTHER -> ""

Accessors(r) ==
    CASE r.k \in {"items.primitive.proto2.copy", "items.primitive.proto2.ref"} ->
            <<[prefix |-> "", name |-> r.args[1], suffix |-> ""],
              [prefix |-> "", name |-> r.args[2], suffix |-> "_option"],
              [prefix |-> "", name |-> r.args[2], suffix |-> "_mut"],
              [prefix |-> "has_", name |-> r.args[2], suffix |-> ""],
              [prefix |-> "set_", name |-> r.args[2], suffix |-> ""],
              [prefix |-> "take_", name |-> r.args[2], suffix |-> ""],
              [prefix |-> "clear_", name |-> r.args[2], suffix |-> ""]>>
      [] r.k = "items.primitive.proto3" ->
            <<[prefix |-> "", name |-> r.args[1], suffix |-> ""],
              [prefix |-> "", name |-> r.args[1], suffix |-> "_mut"]>>
      [] OTHER -> <<>>

MergeTarget(r) ==
    CASE r.k = "merge.primitive.proto2" ->
            "self." \o r.args[4] \o ".get_or_insert_with(__prelude::Default::default)"
      [] r.k = "merge.primitive.proto3" -> "&mut self." \o r.args[4]
      [] OTHER -> ""

\* the identifiers that follow "self." in the text of a field generator's
\* Print, with the variable each template puts there substituted
SelfMembers(r) ==
    CASE r.k \in {"merge.primitive.proto2", "merge.primitive.proto3",
                  "merge.message"} -> {r.args[4]}
      [] r.k \in {"merge.repeated.packed_unpacked", "merge.repeated.unpacked_packed",
                  "merge.repeated.unpacked"} -> {r.args[5]}
      [] r.k \in {"size.repeated", "size.repeated.packed", "write.repeated",
                  "write.repeated.packed"} -> {r.args[3]}
      [] r.k = "init.repeated" -> {r.args[1]}
      [] r.k \in {"items.primitive.proto2.copy", "items.primitive.proto2.ref",
                  "items.primitive.proto3", "items.message", "items.repeated"} ->
            {r.args[1]}
      [] OTHER -> {}

GenerateItems(field) ==
    CASE CreateFieldGenerator(field) = "primitive" -> PrimitiveItems(field)
      [] CreateFieldGenerator(field) = "message" -> MessageItems(field)
      [] OTHER -> RepeatedItems(field)

\* every variant's GenerateExtension has an empty (or commented-out) body
GenerateExtension(field) == <<>>

\* rust_message_generator.cpp:234-235, the body of the last field loop
FieldNumberConstAndItems(field) ==
    GenerateFieldNumberConst(field) \o GenerateItems(field)

-----------------------------------------------------------------------------
(* RustEnumGenerator::Generate.                                            *)

EnumValueConst(value) ==
    Say("enum.value_const",
        <<Join(GetEnumValueName(value)), Join(to_string(value.number))>>)

EnumDebugArm(value) == Say("enum.debug_arm", <<Join(GetEnumValueName(value))>>)

\* what the text of an enum's Prints declares.  A Debug arm
\* "Self::$name$ => f.write_str(\"$name$\")," matches the constant $name$
\* and writes the same $name$; the first Print holds the Default impl.
DebugArm(r) == [pattern |-> r.args[1], written |-> r.args[1]]

DefaultBody(r) ==
    CASE r.k = "enum.struct_and_conversions" -> "Self(0)"
      [] OTHER -> ""

\* the generator with the catch-all arm printed before the named arms
RustEnumGenerator_GenerateFallbackFirst(enum_type) ==
    Say("enum.struct_and_conversions", <<Join(GetEnumName(enum_type))>>)
    \o Say("enum.impl_open", <<Join(GetEnumName(enum_type))>>) \o In
    \o ForEach([i \in DOMAIN enum_type.value |-> EnumValueConst(enum_type.value[i])])
    \o Out \o Say("}", <<>>)
    \o Say("enum.impl_debug_open", <<Join(GetEnumName(enum_type))>>) \o In
    \o Say("enum.fmt_open", <<>>) \o In
    \o Say("enum.allow_unreachable_match_open", <<>>) \o In
    \o Say("enum.debug_fallback", <<>>)
    \o ForEach([i \in DOMAIN enum_type.value |-> EnumDebugArm(enum_type.value[i])])
    \o Out \o Say("}", <<>>)
    \o Out \o Say("}", <<>>)
    \o Out \o Say("}", <<>>)

RustEnumGenerator_Generate(enum_type) ==
    Say("enum.struct_and_conversions", <<Join(GetEnumName(enum_type))>>)
    \o Say("enum.impl_open", <<Join(GetEnumName(enum_type))>>) \o In
    \o ForEach([i \in DOMAIN enum_type.value |-> EnumValueConst(enum_type.value[i])])
    \o Out \o Say("}", <<>>)
    \o Say("enum.impl_debug_open", <<Join(GetEnumName(enum_type))>>) \o In
    \o Say("enum.fmt_open", <<>>) \o In
    \o Say("enum.allow_unreachable_match_open", <<>>) \o In
    \o ForEach([i \in DOMAIN enum_type.value |-> EnumDebugArm(enum_type.value[i])])
    \o Say("enum.debug_fallback", <<>>)
    \o Out \o Say("}", <<>>)
    \o Out \o Say("}", <<>>)
    \o Out \o Say("}", <<>>)

-----------------------------------------------------------------------------
(* RustMessageGenerator::Generate.                                         *)

\* rust_message_generator.cpp:265-269.  The loop runs i over
\* message->extension_count() but reads message->field(i).  A read inside
\* the field array builds a generator for that field; a read past it builds
\* one from whatever lies behind the array.  GenerateExtension prints
\* nothing in every variant, so neither prints.
RECURSIVE ExtensionLoop(_, _)
ExtensionLoop(message, i) ==
    IF i > Len(message.extension) THEN <<>>
    ELSE (IF i <= Len(message.field) THEN GenerateExtension(message.field[i])
                                     ELSE <<>>)
         \o ExtensionLoop(message, i + 1)

\* whether generating the message reads message->field(i) with
\* i >= field_count(), in the message itself or in a nested message
RECURSIVE ReadsPastFields(_)
ReadsPastFields(message) ==
    \/ HasInnerItems(message) /\ Len(message.extension) > Len(message.field)
    \/ \E i \in 1..Len(message.nested_type) : ReadsPastFields(message.nested_type[i])

\* The reads message->SEQUENCE(i) of one for loop whose i runs up to n:
\* which loop, of which descriptor sequence, at which index (from 0), and
\* the count of that sequence.
LoopReads(loop, sequence, n, count) ==
    [i \in 1..n |-> [loop |-> loop, sequence |-> sequence, index |-> i - 1,
                     count |-> count]]

\* the reads of the six loops over field_count() (lines 36, 73, 117, 141,
\* 179, 231)
FieldLoopReads(message) ==
    LET n == Len(message.field)
    IN  LoopReads("GenerateStructField", "field", n, n)
        \o LoopReads("GenerateMergeBranches", "field", n, n)
        \o LoopReads("GenerateCalculateSize", "field", n, n)
        \o LoopReads("GenerateWriteTo", "field", n, n)
        \o LoopReads("GenerateIsInitialized", "field", n, n)
        \o LoopReads("GenerateItems", "field", n, n)

\* every indexed read Generate makes on the message and, through the calls
\* of line 258, on its nested messages.  The loop of line 265 runs i up to
\* extension_count() and reads field(i) at line 266.
RECURSIVE DescriptorReads(_)
DescriptorReads(message) ==
    FieldLoopReads(message)
    \o (IF HasInnerItems(message)
        THEN ForEach([i \in DOMAIN message.nested_type |->
                        <<[loop |-> "nested_type", sequence |-> "nested_type",
                           index |-> i - 1, count |-> Len(message.nested_type)]>>
                        \o DescriptorReads(message.nested_type[i])])
             \o LoopReads("enum_type", "enum_type", Len(message.enum_type),
                          Len(message.enum_type))
             \o LoopReads("GenerateExtension", "field", Len(message.extension),
                          Len(message.field))
        ELSE <<>>)

\* the reads of a run that ends at its first read past the end of a sequence
UpToFirstReadPastEnd(reads) ==
    LET past == {n \in 1..Len(reads) : reads[n].index >= reads[n].count}
    IN  IF past = {} THEN reads
        ELSE SubSeq(reads, 1, CHOOSE n \in past : \A m \in past : n <= m)

\* lines 30-51: the struct
MessageStruct(message) ==
    Say("msg.struct_open", <<Join(GetMessageName(message))>>) \o In
    \o ForEach([i \in DOMAIN message.field |-> GenerateStructField(message.field[i])])
    \o (IF message.extension_range_count # 0
        THEN Say("msg.struct_extensions", <<>>) ELSE <<>>)
    \o Say("msg.struct_unknown_fields", <<>>)
    \o Out \o Say("}", <<>>)

\* lines 53-106: impl Message and merge_from
MessageMergeFrom(message) ==
    Say("msg.impl_message_open", <<Join(GetMessageName(message))>>) \o In
    \o Say("msg.merge_from_open", <<>>) \o In
    \o Say("msg.merge_while_open", <<>>) \o In
    \o Say("msg.merge_match_open", <<>>) \o In
    \o ForEach([i \in DOMAIN message.field |-> GenerateMergeBranches(message.field[i])])
    \o Say(IF message.extension_range_count # 0 THEN "msg.merge_default_ext"
                                                ELSE "msg.merge_default", <<>>)
    \o Out \o Say("}", <<>>)
    \o Out \o Say("msg.merge_while_close_ok", <<>>)
    \o Out

\* calculate_size adding the extension set whatever the descriptor declares
MessageCalculateSizeWithExtensions(message) ==
    Say("msg.calculate_size_open", <<>>) \o In
    \o Say("msg.length_builder_new", <<>>)
    \o ForEach([i \in DOMAIN message.field |-> GenerateCalculateSize(message.field[i])])
    \o Say("msg.size_extensions", <<>>)
    \o Say("msg.size_unknown_fields_build", <<>>)
    \o Out

\* lines 107-134: calculate_size
MessageCalculateSize(message) ==
    Say("msg.calculate_size_open", <<>>) \o In
    \o Say("msg.length_builder_new", <<>>)
    \o ForEach([i \in DOMAIN message.field |-> GenerateCalculateSize(message.field[i])])
    \o (IF message.extension_range_count # 0
        THEN Say("msg.size_extensions", <<>>) ELSE <<>>)
    \o Say("msg.size_unknown_fields_build", <<>>)
    \o Out

\* lines 135-168: write_to and the unknown-field accessors
MessageWriteTo(message) ==
    Say("msg.write_to_open", <<>>) \o In
    \o ForEach([i \in DOMAIN message.field |-> GenerateWriteTo(message.field[i])])
    \o (IF message.extension_range_count # 0
        THEN Say("msg.write_extensions", <<>>) ELSE <<>>)
    \o Say("msg.write_unknown_fields_ok", <<>>)
    \o Out \o Say("msg.unknown_fields_accessors", <<>>)
    \o Out

\* lines 169-193: impl Initializable
MessageInitializable(message) ==
    Say("msg.impl_initializable_open", <<Join(GetMessageName(message))>>) \o In
    \o Say("msg.is_initialized_open", <<>>) \o In
    \o ForEach([i \in DOMAIN message.field |-> GenerateIsInitialized(message.field[i])])
    \o Say("msg.true", <<>>)
    \o Out \o Say("}", <<>>)
    \o Out \o Say("}", <<>>)

\* lines 195-210: impl ExtendableMessage and the dbg_msg! invocation
MessageExtendable(message) ==
    (IF message.extension_range_count # 0
     THEN Say("msg.impl_extendable", <<Join(GetMessageName(message))>>) ELSE <<>>)
    \o Say("msg.dbg_msg", <<Join(GetMessageName(message)), Join(message.full_name)>>)

\* the constants in one loop, the accessors in a second one
MessageItemsImplTwoLoops(message) ==
    Say("msg.impl_open", <<Join(GetMessageName(message))>>) \o In
    \o ForEach([i \in DOMAIN message.field |-> GenerateFieldNumberConst(message.field[i])])
    \o ForEach([i \in DOMAIN message.field |-> GenerateItems(message.field[i])])
    \o Out \o Say("}", <<>>)

\* lines 226-241: the inherent impl with field-number constants and accessors
MessageItemsImpl(message) ==
    Say("msg.impl_open", <<Join(GetMessageName(message))>>) \o In
    \o ForEach([i \in DOMAIN message.field |-> FieldNumberConstAndItems(message.field[i])])
    \o Out \o Say("}", <<>>)

\* the struct member a Print of lines 30-46 declares, "" when it declares none
StructMember(r) ==
    CASE r.k = "struct_field" -> r.args[1]
      [] r.k = "msg.struct_extensions" -> "__extensions"
      [] r.k = "msg.struct_unknown_fields" -> "__unknown_fields"
      [] OTHER -> ""

\* whether the text of a Print of the message generator reads
\* self.__extensions: the default arm of lines 80-86, the size contribution
\* of line 125, the write of line 149 and the impl of lines 196-205
ReferencesExtensions(r) ==
    r.k \in {"msg.merge_default_ext", "msg.size_extensions", "msg.write_extensions",
             "msg.impl_extendable"}

\* lines 23-241: everything before the nested module
MessageBody(message) ==
    MessageStruct(message)
    \o MessageMergeFrom(message)
    \o MessageCalculateSize(message)
    \o MessageWriteTo(message)
    \o MessageInitializable(message)
    \o MessageExtendable(message)
    \o MessageItemsImpl(message)

\* the nested module named as the struct is
ModuleOpenNamedAsMessage(message) ==
    Say("msg.mod_open", <<Join(GetMessageName(message))>>) \o In
    \o Say("msg.mod_preamble", <<>>)

\* lines 244-253: open the nested module and print its preamble
ModuleOpen(message) ==
    Say("msg.mod_open", <<Join(GetMessageModName(message))>>) \o In
    \o Say("msg.mod_preamble", <<>>)

\* the closing brace without the Outdent before it
ModuleCloseKeepingIndent == Say("}", <<>>)

\* lines 271-274
ModuleClose == Out \o Say("}", <<>>)

RECURSIVE RustMessageGenerator_Generate(_)

\* lines 255-259, the loop over the nested messages
RECURSIVE NestedTypeLoop(_, _)
NestedTypeLoop(nested_type, i) ==
    IF i > Len(nested_type) THEN <<>>
    ELSE RustMessageGenerator_Generate(nested_type[i])
         \o NestedTypeLoop(nested_type, i + 1)

RustMessageGenerator_Generate(message) ==
    MessageBody(message)
    \o (IF HasInnerItems(message)
        THEN ModuleOpen(message)
             \o NestedTypeLoop(message.nested_type, 1)
             \o ForEach([i \in DOMAIN message.enum_type |-> RustEnumGenerator_Generate(message.enum_type[i])])
             \o ExtensionLoop(message, 1)
             \o ModuleClose
        ELSE <<>>)

-----------------------------------------------------------------------------
(* RustFileGenerator::Generate.                                            *)

RustFileGenerator_Generate(file) ==
    Say("file.preamble", <<>>)
    \o ForEach([i \in DOMAIN file.message_type |-> RustMessageGenerator_Generate(file.message_type[i])])
    \o ForEach([i \in DOMAIN file.enum_type |-> RustEnumGenerator_Generate(file.enum_type[i])])
    \o ForEach([i \in DOMAIN file.extension |-> GenerateExtension(file.extension[i])])

\* whether generating the file calls Escape: every message and every enum
\* has its name escaped
FileCallsEscape(file) == file.message_type # <<>> \/ file.enum_type # <<>>

\* whether generating the file reads past a field array (see ExtensionLoop)
FileReadsPastFields(file) ==
    \E i \in 1..Len(file.message_type) : ReadsPastFields(file.message_type[i])

-----------------------------------------------------------------------------
(* RustModGenerator::GenerateFileMod.                                      *)

\* "pub(super) use super::super::$import$;" for one dependency
ImportUse(dependency) == Say("mod.import_use", <<Join(GetFileModNameOf(dependency))>>)

\* the block of one option import
OptionImport(import) == Say("mod.option_import", <<Join(import)>>)

\* What the Print of rust_mod_generator.cpp:52-58 is made of.  No comma
\* follows the string literal of line 55, so the literal "file_mod" of line
\* 57 is joined to the text, which ends with it, and the variable file_mod
\* is the only argument after the text: a value without a key.  $file_mod$
\* has no pair of its own; in modules are the texts that may stand for it,
\* the value passed or nothing.
SelfAliasText(r) ==
    [globals |-> "pub(self) use super::globals as __globals;",
     alias |-> "__file",
     modules |-> {r.args[1], ""},
     trailing |-> "file_mod"]

\* The call at rust_mod_generator.cpp:52-58 has no comma after its second
\* string literal, so the literal "file_mod" is part of the text and
\* file_mod is the call's only other argument.
GenerateFileMod(file, imports) ==
    Say("mod.file_open", <<Join(GetFileDirPath(file)), Join(GetFileModName(file))>>)
    \o In
    \o Say("mod.globals_and_self_alias", <<Join(GetFileModName(file))>>)
    \o Say("mod.imports_open", <<>>) \o In
    \o ForEach([i \in DOMAIN file.dependency |-> ImportUse(file.dependency[i])])
    \o Out \o Say("mod.imports_close", <<>>)
    \o Say("mod.protrust", <<>>)
    \o ForEach([i \in DOMAIN imports |-> OptionImport(imports[i])])
    \o Out \o Say("}", <<>>)

-----------------------------------------------------------------------------
(* Input descriptors.                                                      *)

N_a_b_proto == <<"a","/","b",".","p","r","o","t","o">>
N_c_proto == <<"c",".","p","r","o","t","o">>
N_e_proto == <<"e",".","p","r","o","t","o">>
N_Outer == <<"O","u","t","e","r">>
N_Inner == <<"I","n","n","e","r">>
N_count == <<"c","o","u","n","t">>
N_type == <<"t","y","p","e">>
N_xs == <<"x","s">>
N_key == <<"k","e","y">>
N_value == <<"v","a","l","u","e">>

FileRef(name, syntax) == [name |-> name, syntax |-> syntax]

\* the key or value field of a map entry, as far as the type mapping reads it
EntryField(name, number, type, file) ==
    [name |-> name, number |-> number, type |-> type, file |-> file,
     target |-> NoTarget]

NoEntryField == EntryField(<<>>, 0, "", FileRef(<<>>, ""))

\* a singular field of a scalar type with the type's zero default
ScalarField(name, number, type, file) ==
    [name |-> name, number |-> number, type |-> type, label |-> "optional",
     file |-> file, is_map |-> FALSE, is_packed |-> FALSE, target |-> NoTarget,
     map_key |-> NoEntryField, map_value |-> NoEntryField,
     default_int |-> 0, default_bool |-> FALSE, default_string |-> <<>>,
     default_enum |-> <<>>]

MessageField(name, number, target, file) ==
    [ScalarField(name, number, "MESSAGE", file) EXCEPT !.target = target]

EnumField(name, number, target, default, file) ==
    [ScalarField(name, number, "ENUM", file) EXCEPT
        !.target = target, !.default_enum = default]

RepeatedField(name, number, type, packed, file) ==
    [ScalarField(name, number, type, file) EXCEPT
        !.label = "repeated", !.is_packed = packed]

\* a map field: repeated, of the synthetic entry message, whose field 1 is
\* the key and field 2 the value
MapField(name, number, key_type, value_type, entry, file) ==
    [ScalarField(name, number, "MESSAGE", file) EXCEPT
        !.label = "repeated", !.is_map = TRUE, !.target = entry,
        !.map_key = EntryField(N_key, 1, key_type, file),
        !.map_value = EntryField(N_value, 2, value_type, file)]

Message(name, full_name, field) ==
    [name |-> name, full_name |-> full_name, field |-> field, nested_type |-> <<>>,
     enum_type |-> <<>>, extension |-> <<>>, extension_range_count |-> 0,
     oneof_decl_count |-> 0]

\* a/b.proto (proto2):
\*   message Outer { message Inner { optional int32 x = 1; }
\*                   optional int32 count = 7; optional Inner i = 2;
\*                   optional string type = 3 [default = "anon"]; }
File_a_b ==
    LET f == FileRef(N_a_b_proto, "proto2")
        inner == Message(N_Inner, N_Outer \o <<".">> \o N_Inner,
                         <<ScalarField(<<"x">>, 1, "INT32", f)>>)
        innerRef == [name |-> N_Inner, file |-> N_a_b_proto, containing |-> <<N_Outer>>]
        outer == [Message(N_Outer, N_Outer,
                     <<ScalarField(N_count, 7, "INT32", f),
                       MessageField(<<"i">>, 2, innerRef, f),
                       [ScalarField(N_type, 3, "STRING", f) EXCEPT
                           !.default_string = <<"a","n","o","n">>]>>)
                  EXCEPT !.nested_type = <<inner>>]
    IN  [name |-> N_a_b_proto, syntax |-> "proto2", dependency |-> <<>>,
         message_type |-> <<outer>>, enum_type |-> <<>>, extension |-> <<>>]

\* c.proto (proto3), import "a/b.proto":
\*   enum E { A = 0; B = 1; AA = 1; }
\*   message M { repeated int32 xs = 2; Outer.Inner far = 1; E e = 4;
\*               map<string, int32> tags = 5; }
File_c ==
    LET f == FileRef(N_c_proto, "proto3")
        innerRef == [name |-> N_Inner, file |-> N_a_b_proto, containing |-> <<N_Outer>>]
        eRef == [name |-> <<"E">>, file |-> N_c_proto, containing |-> <<>>]
        entryRef == [name |-> <<"T","a","g","s","E","n","t","r","y">>,
                     file |-> N_c_proto, containing |-> <<<<"M">>>>]
        e == [name |-> <<"E">>,
              value |-> <<[name |-> <<"A">>, number |-> 0],
                          [name |-> <<"B">>, number |-> 1],
                          [name |-> <<"A","A">>, number |-> 1]>>]
        m == Message(<<"M">>, <<"M">>,
                <<RepeatedField(N_xs, 2, "INT32", TRUE, f),
                  MessageField(<<"f","a","r">>, 1, innerRef, f),
                  EnumField(<<"e">>, 4, eRef, <<"A">>, f),
                  MapField(<<"t","a","g","s">>, 5, "STRING", "INT32", entryRef, f)>>)
    IN  [name |-> N_c_proto, syntax |-> "proto3", dependency |-> <<N_a_b_proto>>,
         message_type |-> <<m>>, enum_type |-> <<e>>, extension |-> <<>>]

\* e.proto (proto2):
\*   message Base { extensions 100 to 199; }
\*   message Holder { extend Base { optional int32 extra = 100; } }
File_e ==
    LET f == FileRef(N_e_proto, "proto2")
        base == [Message(<<"B","a","s","e">>, <<"B","a","s","e">>, <<>>)
                 EXCEPT !.extension_range_count = 1]
        holder == [Message(<<"H","o","l","d","e","r">>, <<"H","o","l","d","e","r">>, <<>>)
                   EXCEPT !.extension =
                       <<ScalarField(<<"e","x","t","r","a">>, 100, "INT32", f)>>]
    IN  [name |-> N_e_proto, syntax |-> "proto2", dependency |-> <<>>,
         message_type |-> <<base, holder>>, enum_type |-> <<>>, extension |-> <<>>]

\* a_b.proto (proto3), a file without types whose name differs from
\* a/b.proto in one character that is not a letter
N_a_b_flat_proto == <<"a", "_", "b", ".", "p", "r", "o", "t", "o">>

File_a_b_flat ==
    [name |-> N_a_b_flat_proto, syntax |-> "proto3", dependency |-> <<>>,
     message_type |-> <<>>, enum_type |-> <<>>, extension |-> <<>>]

FilePool == {File_a_b, File_c, File_e, File_a_b_flat}

\* the sequences over S of length at most n
SeqsUpTo(S, n) == UNION {[1..k -> S] : k \in 0..n}

NoRepeat(s) == \A i, j \in 1..Len(s) : i # j => s[i] # s[j]

\* the requests: lists of distinct files
FileLists == {s \in SeqsUpTo(FilePool, MaxFiles) : NoRepeat(s)}

\* the pieces a parameter string is made of
ParameterPieces ==
    {S_file_extension \o <<"=", ".", "x">>,
     S_imports \o <<"=", "a">>,
     <<"b">>,
     <<"b", "a", "d", "=", "1">>}

RECURSIVE JoinWithCommas(_)
JoinWithCommas(pieces) ==
    IF pieces = <<>> THEN <<>>
    ELSE IF Len(pieces) = 1 THEN pieces[1]
    ELSE pieces[1] \o <<",">> \o JoinWithCommas(Tail(pieces))

Parameters == {JoinWithCommas(s) : s \in SeqsUpTo(ParameterPieces, MaxOpts)}

-----------------------------------------------------------------------------
(* The stand-alone message inputs: every list of at most MaxFields fields  *)
(* over the field shapes, in a proto2 or a proto3 file, with or without    *)
(* extension ranges, a nested message and a nested extension.              *)

FieldNames == <<N_count, N_type, N_xs, <<"m">>, <<"z">>>>
FieldNumbers == <<7, 536870911, 15, 1, 9>>
FieldShapes == {"int32", "string", "message", "packed", "strings", "map"}

ShapedField(shape, i, f) ==
    LET name == FieldNames[i]
        number == FieldNumbers[i]
        innerRef == [name |-> N_Inner, file |-> N_a_b_proto, containing |-> <<N_Outer>>]
        entryRef == [name |-> <<"E","n","t","r","y">>, file |-> f.name,
                     containing |-> <<N_Outer>>]
    IN  CASE shape = "int32" -> ScalarField(name, number, "INT32", f)
          [] shape = "string" -> ScalarField(name, number, "STRING", f)
          [] shape = "message" -> MessageField(name, number, innerRef, f)
          [] shape = "packed" -> RepeatedField(name, number, "INT32", TRUE, f)
          [] shape = "strings" -> RepeatedField(name, number, "STRING", FALSE, f)
          [] shape = "map" -> MapField(name, number, "STRING", "INT32", entryRef, f)

ShapedMessage(shapes, syntax, ranges, nested, extensions) ==
    LET f == FileRef(N_a_b_proto, syntax)
        inner == Message(N_Inner, N_Outer \o <<".">> \o N_Inner,
                         <<ScalarField(<<"x">>, 1, "INT32", f)>>)
    IN  [Message(N_Outer, N_Outer, [i \in 1..Len(shapes) |-> ShapedField(shapes[i], i, f)])
         EXCEPT !.extension_range_count = ranges,
                !.nested_type = IF nested THEN <<inner>> ELSE <<>>,
                !.extension = [i \in 1..extensions |->
                                  ScalarField(<<"e","x","t">>, 100 + i, "INT32", f)]]

Messages ==
    {ShapedMessage(shapes, syntax, ranges, nested, extensions) :
        shapes \in SeqsUpTo(FieldShapes, MaxFields), syntax \in {"proto2", "proto3"},
        ranges \in 0..1, nested \in BOOLEAN, extensions \in 0..2}

NoMessage == Message(<<>>, <<>>, <<>>)

\* simple names handed to the naming helpers: every string of up to MaxName
\* characters of NameAlphabet, every reserved word spelled out, and every
\* reserved word with its first letter capitalised or an "s" appended
NameAlphabet == {"a", "s", "A", "B", "1", "_", ".", "/"}

ReservedNames ==
    {<<"a","s">>, <<"b","r","e","a","k">>, <<"c","o","n","s","t">>,
     <<"c","o","n","t","i","n","u","e">>, <<"e","l","s","e">>,
     <<"e","n","u","m">>, <<"f","a","l","s","e">>, <<"f","n">>,
     <<"f","o","r">>, <<"i","f">>, <<"i","m","p","l">>, <<"i","n">>,
     <<"l","e","t">>, <<"l","o","o","p">>, <<"m","a","t","c","h">>,
     <<"m","o","d">>, <<"m","o","v","e">>, <<"m","u","t">>, <<"p","u","b">>,
     <<"r","e","f">>, <<"r","e","t","u","r","n">>,
     <<"s","t","a","t","i","c">>, <<"s","t","r","u","c","t">>,
     <<"t","r","a","i","t">>, <<"t","r","u","e">>, <<"t","y","p","e">>,
     <<"u","n","s","a","f","e">>, <<"u","s","e">>, <<"w","h","e","r","e">>,
     <<"w","h","i","l","e">>, <<"d","y","n">>,
     <<"a","b","s","t","r","a","c","t">>, <<"b","e","c","o","m","e">>,
     <<"b","o","x">>, <<"d","o">>, <<"f","i","n","a","l">>,
     <<"m","a","c","r","o">>, <<"o","v","e","r","r","i","d","e">>,
     <<"p","r","i","v">>, <<"t","y","p","e","o","f">>,
     <<"u","n","s","i","z","e","d">>, <<"v","i","r","t","u","a","l">>,
     <<"y","i","e","l","d">>, <<"a","s","y","n","c">>,
     <<"a","w","a","i","t">>, <<"t","r","y">>}

Capitalised(name) == <<ToUpperChar(name[1])>> \o Tail(name)

Names ==
    SeqsUpTo(NameAlphabet, MaxName)
        \cup ReservedNames
        \cup {Capitalised(w) : w \in ReservedNames}
        \cup {w \o <<"s">> : w \in ReservedNames}

\* ---- fields handed to the field generators on their own ----

FieldTypes ==
    {"DOUBLE", "FLOAT", "INT64", "UINT64", "INT32", "FIXED64", "FIXED32", "BOOL",
     "STRING", "GROUP", "MESSAGE", "BYTES", "UINT32", "ENUM", "SFIXED32",
     "SFIXED64", "SINT32", "SINT64"}

\* field numbers: the smallest, those around the widths of the tag's
\* decimal text and of the shifted int, and the largest (2^29 - 1)
WideNumbers == {1, 15, 16, 2047, 2048, 268435455, 268435456, 536870911}

\* the messages a referenced type can be nested in
ParentNames == {N_Outer, <<"H", "T", "T", "P">>}

\* references to a type named name: declared in the field's own file or in
\* an imported one, at top level or nested at most MaxDepth deep
TargetsNamed(name, file) ==
    {[name |-> name, file |-> tfile, containing |-> chain] :
        tfile \in {file.name, N_c_proto, N_a_b_proto},
        chain \in SeqsUpTo(ParentNames, MaxDepth)}

\* the labels a field of a type can have: singular, repeated and, for a
\* packable type, repeated with [packed = true]
Labelled(field) ==
    {field, [field EXCEPT !.label = "repeated"]}
        \cup (IF is_packable([field EXCEPT !.label = "repeated"])
              THEN {[field EXCEPT !.label = "repeated", !.is_packed = TRUE]}
              ELSE {})

FieldFiles == {FileRef(N_a_b_proto, "proto2"), FileRef(N_e_proto, "proto3")}

\* a field of the type with the simplest target the type needs
TypedField(name, number, type, file) ==
    [ScalarField(name, number, type, file) EXCEPT
        !.target = IF type \in {"ENUM", "MESSAGE", "GROUP"}
                   THEN [name |-> N_Inner, file |-> file.name, containing |-> <<>>]
                   ELSE NoTarget,
        !.default_enum = IF type = "ENUM" THEN <<"A">> ELSE <<>>]

\* every type at every number of WideNumbers
NumberedFields ==
    UNION {Labelled(TypedField(N_count, number, type, file)) :
              number \in WideNumbers, type \in FieldTypes, file \in FieldFiles}

\* fields of a file referring to a message, a group or an enum, wherever
\* it is declared
ReferringFieldsOf(file) ==
    UNION {Labelled([TypedField(name, 7, type, file) EXCEPT !.target = target]) :
              name \in {N_count, N_type}, type \in {"ENUM", "MESSAGE", "GROUP"},
              target \in TargetsNamed(N_Inner, file) \cup TargetsNamed(N_type, file)}

ReferringFields == UNION {ReferringFieldsOf(file) : file \in FieldFiles}

\* scalar fields with a name that is a reserved word and a declared default
DefaultedFields ==
    {[TypedField(N_type, 3, type, file) EXCEPT
         !.default_int = 42, !.default_bool = TRUE,
         !.default_string = <<"a", "n", "o", "n">>, !.default_enum = N_type] :
        type \in FieldTypes \ {"MESSAGE", "GROUP"}, file \in FieldFiles}

MapFieldsOf(file) ==
    {[MapField(N_xs, number, key, value.type,
               [name |-> <<"X","s","E","n","t","r","y">>, file |-> file.name,
                containing |-> <<N_Outer>>], file)
         EXCEPT !.map_value = value] :
        number \in {5, 536870911}, key \in {"STRING", "INT32"},
        value \in {EntryField(N_value, 2, "INT32", file),
                   [EntryField(N_value, 2, "MESSAGE", file) EXCEPT
                       !.target = [name |-> N_Inner, file |-> N_c_proto,
                                   containing |-> <<N_Outer>>]]}}

MapFields == UNION {MapFieldsOf(file) : file \in FieldFiles}

\* a group is a proto2 construct
Fields ==
    {f \in NumberedFields \cup ReferringFields \cup DefaultedFields \cup MapFields :
        f.type = "GROUP" => IsProto2File(f.file)}

\* ---- enums handed to the enum generator on its own ----

EnumValues ==
    {[name |-> name, number |-> number] :
        name \in {<<"A">>, <<"B">>, <<"A", "A">>, N_type},
        number \in {0, 1, -1}}

\* enums named E or type with at most MaxValues values of distinct names;
\* numbers may repeat and need not include 0
Enums ==
    {[name |-> name, value |-> values] :
        name \in {<<"E">>, N_type},
        values \in {vs \in SeqsUpTo(EnumValues, MaxValues) :
                       \A i, j \in 1..Len(vs) : i # j => vs[i].name # vs[j].name}}

\* ---- files handed to one iteration of the index loop on their own ----

\* the simple names of the messages of a tree, by nesting level
TreeNames == <<N_Outer, <<"A", "B">>, N_Inner, <<"D", "e", "e", "p">>>>

TreeName(level) == TreeNames[((level - 1) % Len(TreeNames)) + 1]

\* what a message of a tree declares besides its nested messages: one
\* field; one field and a nested enum; one field and a oneof; or no field
\* and a nested extension
TreeKinds == {"plain", "enum", "oneof", "overrun"}

N_Side == <<"S", "i", "d", "e">>

TreeMessage(name, kind, nested) ==
    LET f == FileRef(N_a_b_proto, "proto2")
    IN  [Message(name, name,
                 IF kind = "overrun" THEN <<>>
                 ELSE <<ScalarField(<<"x">>, 1, "INT32", f)>>)
         EXCEPT !.nested_type = nested,
                !.enum_type = IF kind = "enum"
                              THEN <<[name |-> <<"E">>,
                                      value |-> <<[name |-> <<"A">>, number |-> 0]>>]>>
                              ELSE <<>>,
                !.extension = IF kind = "overrun"
                              THEN <<ScalarField(<<"e","x","t">>, 100, "INT32", f)>>
                              ELSE <<>>,
                !.oneof_decl_count = IF kind = "oneof" THEN 1 ELSE 0]

\* the messages named TreeName(level) with nested messages down to level
\* MaxDepth + 1: no nested message, one, or one followed by the plain
\* message Side
RECURSIVE TreesAt(_)
TreesAt(level) ==
    LET below == IF level > MaxDepth THEN {} ELSE TreesAt(level + 1)
        nestings == {<<>>} \cup {<<t>> : t \in below}
                        \cup {<<t, TreeMessage(N_Side, "plain", <<>>)>> : t \in below}
    IN  {TreeMessage(TreeName(level), kind, nested) :
            kind \in TreeKinds, nested \in nestings}

Trees == TreesAt(1)

\* a/b.proto with one tree as its only type
TreeFiles ==
    {[name |-> N_a_b_proto, syntax |-> "proto2", dependency |-> <<>>,
      message_type |-> <<tree>>, enum_type |-> <<>>, extension |-> <<>>] :
        tree \in Trees}

\* c.proto (proto3) importing g.proto, h.proto, both or neither, where
\* h.proto has "import public g.proto": a type of g.proto may be named in
\* c.proto when c.proto imports g.proto or h.proto
N_g_proto == <<"g", ".", "p", "r", "o", "t", "o">>
N_h_proto == <<"h", ".", "p", "r", "o", "t", "o">>

DependencyLists == {s \in SeqsUpTo({N_g_proto, N_h_proto}, 2) : NoRepeat(s)}

PublicImports(name) == IF name = N_h_proto THEN {N_g_proto} ELSE {}

\* the files whose types a file with these imports may name
Visible(dependency) ==
    {dependency[i] : i \in 1..Len(dependency)}
        \cup UNION {PublicImports(dependency[i]) : i \in 1..Len(dependency)}

\* message M of c.proto with one field that refers to a type of the file
\* named target: a message field, an enum field, a map whose values are
\* messages, or a message field of the message Inner nested in M
ReferringMessage(how, target) ==
    LET f == FileRef(N_c_proto, "proto3")
        nestedRef == [name |-> N_Inner, file |-> target, containing |-> <<N_Outer>>]
        topRef == [name |-> <<"E">>, file |-> target, containing |-> <<>>]
        entryRef == [name |-> <<"X","s","E","n","t","r","y">>, file |-> N_c_proto,
                     containing |-> <<<<"M">>>>]
        field == CASE how \in {"message", "nested"} ->
                         MessageField(<<"f","a","r">>, 1, nestedRef, f)
                   [] how = "enum" -> EnumField(<<"e">>, 4, topRef, <<"A">>, f)
                   [] how = "map" ->
                         [MapField(N_xs, 5, "STRING", "MESSAGE", entryRef, f)
                          EXCEPT !.map_value.target = nestedRef]
    IN  IF how = "nested"
        THEN [Message(<<"M">>, <<"M">>, <<>>) EXCEPT
                 !.nested_type = <<Message(N_Inner, <<"M", ".">> \o N_Inner, <<field>>)>>]
        ELSE Message(<<"M">>, <<"M">>, <<field>>)

IndexFiles ==
    UNION {{[name |-> N_c_proto, syntax |-> "proto3", dependency |-> dependency,
             message_type |-> message_type,
             enum_type |-> <<[name |-> <<"E">>,
                              value |-> <<[name |-> <<"A">>, number |-> 0]>>]>>,
             extension |-> <<>>] :
              message_type \in {<<>>} \cup
                 {<<ReferringMessage(how, target)>> :
                     how \in {"message", "enum", "map", "nested"},
                     target \in Visible(dependency)}} :
           dependency \in DependencyLists}

\* the values of the imports option
ImportLists == SeqsUpTo({<<"a">>, <<"b">>}, MaxOpts)

\* the inputs of one iteration: a file and the imports option
ShapeInputs ==
    {[file |-> file, imports |-> <<>>] : file \in TreeFiles}
        \cup {[file |-> file, imports |-> imports] :
                 file \in IndexFiles, imports \in ImportLists}


-----------------------------------------------------------------------------
(* The generator context and the streams it hands out.                     *)

\* GeneratorContext::Open never returns null: when the file cannot be
\* opened it hands out a dummy stream, and what is written there is dropped
\* from the response.  A stream record keeps the path, whether it is such a
\* dummy, and the state of the io::Printer constructed on it.
OpenStream(path, dummy) == [path |-> path, dummy |-> dummy, out |-> <<>>, indent |-> 0]

PrinterOf(stream) == [out |-> stream.out, indent |-> stream.indent]

WithPrinter(stream, p) == [stream EXCEPT !.out = p.out, !.indent = p.indent]

\* mod_stream is the first stream GenerateAll opens
ModStream == 1

\* the streams whose printer has been destroyed
Released == (1..Len(streams)) \ held

\* file_printer goes out of scope at the end of the loop body
\* (rust_mod_generator.cpp:40)
KeepFilePrinter(h, stream) == h
EndOfLoopBody(h, stream) == h \ {stream}

\* mod_printer outlives Generate
KeepModPrinter(h) == h

\* mod_printer goes out of scope when Generate returns (rust_mod_generator.cpp:41)
EndOfGenerate(h) == h \ {ModStream}

-----------------------------------------------------------------------------
(* RustGenerator::GenerateAll (rust_generator.cpp:31-61).                  *)

NoOutcome == [opened |-> <<>>, streams |-> <<>>, ret |-> "none", error |-> <<>>]

Outcome == [opened |-> opened, streams |-> streams, ret |-> ret, error |-> error]

\* lines 36-39: split the parameter, construct cli_options
ParseParameter ==
    /\ pc = "call"
    /\ options' = ParseGeneratorParameter(parameter)
    /\ cli_options' = NewOptions(cli_options)
    /\ oi' = 1
    /\ pc' = "options"
    /\ UNCHANGED <<files, parameter, failing, run, error, ret, opened, streams,
                   held, fi, prev, words, msgVars, unitVars>>

\* lines 42-43
OptionFileExtension ==
    /\ pc = "options"
    /\ oi <= Len(options)
    /\ options[oi][1] = S_file_extension
    /\ cli_options' = [cli_options EXCEPT !.file_extension = options[oi][2]]
    /\ oi' = oi + 1
    /\ UNCHANGED <<files, parameter, failing, run, pc, options, error, ret, opened,
                   streams, held, fi, prev, words, msgVars, unitVars>>

\* lines 44-50
OptionImports ==
    /\ pc = "options"
    /\ oi <= Len(options)
    /\ options[oi][1] # S_file_extension
    /\ options[oi][1] = S_imports
    /\ cli_options' = [cli_options EXCEPT !.imports = @ \o GetlineSplit(options[oi][2])]
    /\ oi' = oi + 1
    /\ UNCHANGED <<files, parameter, failing, run, pc, options, error, ret, opened,
                   streams, held, fi, prev, words, msgVars, unitVars>>

\* lines 51-54 with the return dropped: the loop goes on
OptionUnknownGoesOn ==
    /\ pc = "options"
    /\ oi <= Len(options)
    /\ options[oi][1] \notin {S_file_extension, S_imports}
    /\ error' = UnknownOptionError(options[oi][1])
    /\ oi' = oi + 1
    /\ UNCHANGED <<files, parameter, failing, run, pc, options, cli_options, ret,
                   opened, streams, held, fi, prev, words, msgVars, unitVars>>

\* lines 51-54: set the error, return false
OptionUnknown ==
    /\ pc = "options"
    /\ oi <= Len(options)
    /\ options[oi][1] \notin {S_file_extension, S_imports}
    /\ error' = UnknownOptionError(options[oi][1])
    /\ ret' = "false"
    /\ pc' = "returned"
    /\ UNCHANGED <<files, parameter, failing, run, options, oi, cli_options, opened,
                   streams, held, fi, prev, words, msgVars, unitVars>>

-----------------------------------------------------------------------------
(* RustModGenerator::Generate (rust_mod_generator.cpp:24-41), called at    *)
(* rust_generator.cpp:57-58 once the option loop is through.               *)

\* context->Open(path) and the io::Printer constructed on the stream
Open(path) ==
    /\ opened' = Append(opened, path)
    /\ streams' = Append(streams, OpenStream(path, Len(opened) + 1 = failing))
    /\ held' = held \cup {Len(streams) + 1}

\* lines 25-28: open mod.rs, construct mod_printer, print the banner
OpenMod ==
    /\ pc = "options"
    /\ oi > Len(options)
    /\ opened' = Append(opened, S_mod_rs)
    /\ streams' = Append(streams,
          WithPrinter(OpenStream(S_mod_rs, Len(opened) + 1 = failing),
                      Run(NewPrinter, Say("mod.banner", <<>>))))
    /\ held' = held \cup {Len(streams) + 1}
    /\ fi' = 1
    /\ pc' = "loop"
    /\ UNCHANGED <<files, parameter, failing, run, options, oi, cli_options, error,
                   ret, prev, words, msgVars, unitVars>>

\* lines 30-32: GenerateFileMod(file, mod_printer)
FileMod ==
    /\ pc = "loop"
    /\ fi <= Len(files)
    /\ streams' = [streams EXCEPT ![ModStream] =
          WithPrinter(@, Run(PrinterOf(@),
                             GenerateFileMod(files[fi], cli_options.imports)))]
    /\ pc' = "open"
    /\ UNCHANGED <<files, parameter, failing, run, options, oi, cli_options, error,
                   ret, opened, held, fi, prev, words, msgVars, unitVars>>

\* lines 34-36: open the file's source, construct file_printer
OpenFile ==
    /\ pc = "open"
    /\ Open(GetOutputFilePath(files[fi], S_protrust))
    /\ pc' = "generate"
    /\ UNCHANGED <<files, parameter, failing, run, options, oi, cli_options, error,
                   ret, fi, prev, words, msgVars, unitVars>>

\* lines 38-39: file_generator.Generate(file_printer)
GenerateFile ==
    /\ pc = "generate"
    /\ streams' = [streams EXCEPT ![Len(streams)] =
          WithPrinter(@, Run(PrinterOf(@), RustFileGenerator_Generate(files[fi])))]
    /\ words' = IF FileCallsEscape(files[fi]) THEN WordsAfterEscape ELSE words
    /\ pc' = "end"
    /\ UNCHANGED <<files, parameter, failing, run, options, oi, cli_options, error,
                   ret, opened, held, fi, prev, msgVars, unitVars>>

\* lines 38-39 when the file has a message whose extension loop reads past
\* its field array: the read is undefined, and instead of going on as in
\* GenerateFile the process may die there, before any response is written
GenerateFileCrash ==
    /\ pc = "generate"
    /\ FileReadsPastFields(files[fi])
    /\ pc' = "crashed"
    /\ UNCHANGED <<files, parameter, failing, run, options, oi, cli_options, error,
                   ret, opened, streams, held, fi, prev, words, msgVars, unitVars>>

\* line 40: the loop body ends, file_printer is destroyed, i++
EndIteration ==
    /\ pc = "end"
    /\ held' = EndOfLoopBody(held, Len(streams))
    /\ fi' = fi + 1
    /\ pc' = "loop"
    /\ UNCHANGED <<files, parameter, failing, run, options, oi, cli_options, error,
                   ret, opened, streams, prev, words, msgVars, unitVars>>

\* line 41 and rust_generator.cpp:60: Generate returns, mod_printer is
\* destroyed, GenerateAll returns true
ReturnTrue ==
    /\ pc = "loop"
    /\ fi > Len(files)
    /\ held' = EndOfGenerate(held)
    /\ ret' = "true"
    /\ pc' = "returned"
    /\ UNCHANGED <<files, parameter, failing, run, options, oi, cli_options, error,
                   opened, streams, fi, prev, words, msgVars, unitVars>>

\* the same request is handed to GenerateAll once more, with a fresh context
\* and a fresh error string; what the first call left in the process stays
SecondCall ==
    /\ pc = "returned"
    /\ run = 1
    /\ prev' = Outcome
    /\ run' = 2
    /\ pc' = "call"
    /\ options' = <<>>
    /\ oi' = 1
    /\ fi' = 1
    /\ error' = <<>>
    /\ ret' = "none"
    /\ opened' = <<>>
    /\ streams' = <<>>
    /\ held' = {}
    /\ UNCHANGED <<files, parameter, failing, cli_options, words, msgVars, unitVars>>

-----------------------------------------------------------------------------
(* RustMessageGenerator::Generate on one message and a fresh printer.      *)

MessageGenerate ==
    /\ mpc = "start"
    /\ mout' = Run(NewPrinter, RustMessageGenerator_Generate(msg))
    /\ mreads' = DescriptorReads(msg)
    /\ mpc' = "done"
    /\ words' = WordsAfterEscape
    /\ UNCHANGED <<msg, driverVars, unitVars>>

\* the undefined read of the extension loop ends the process
MessageCrash ==
    /\ mpc = "start"
    /\ ReadsPastFields(msg)
    /\ mpc' = "crashed"
    /\ mreads' = UpToFirstReadPastEnd(DescriptorReads(msg))
    /\ UNCHANGED <<msg, mout, words, driverVars, unitVars>>

\* ---- the naming helpers called on their own ----

\* a descriptor of which only the name is read
Named(name) == [name |-> name]

\* the descriptor pool accepts as the simple name of a message, enum, enum
\* value or field only an identifier: letters, digits and underscores, not
\* starting with a digit
IsIdentifier(name) ==
    /\ name # <<>>
    /\ \A i \in 1..Len(name) :
          IsUpper(name[i]) \/ IsLower(name[i]) \/ name[i] = "_"
             \/ (i > 1 /\ IndexIn(name[i], Digits) # 0)

\* GetMessageName, GetEnumName, GetEnumValueName and GetFieldName of
\* descriptors with the simple name arg
NameEscape ==
    /\ upc = "start"
    /\ IsIdentifier(arg)
    /\ uout' = [message |-> GetMessageName(Named(arg)),
                enum |-> GetEnumName(Named(arg)),
                value |-> GetEnumValueName(Named(arg)),
                field |-> GetFieldName(Named(arg))]
    /\ upc' = "escaped"
    /\ words' = WordsAfterEscape
    /\ UNCHANGED <<arg, driverVars, msgVars>>

NameMessageMod ==
    /\ upc = "start"
    /\ IsIdentifier(arg)
    /\ uout' = GetMessageModName(Named(arg))
    /\ upc' = "mod_named"
    /\ UNCHANGED <<arg, words, driverVars, msgVars>>

NameFileMod ==
    /\ upc = "start"
    /\ uout' = GetFileModName(Named(arg))
    /\ upc' = "file_mod_named"
    /\ UNCHANGED <<arg, words, driverVars, msgVars>>

\* ---- the field generator's methods called on their own ----

\* CreateFieldGenerator(arg, options)-><method>(printer) on a new printer
FieldCall(method, calls) ==
    /\ upc = "start"
    /\ uout' = Run(NewPrinter, calls)
    /\ upc' = method
    /\ UNCHANGED <<arg, words, driverVars, msgVars>>

FieldStructField == FieldCall("GenerateStructField", GenerateStructField(arg))
FieldMergeBranches == FieldCall("GenerateMergeBranches", GenerateMergeBranches(arg))
FieldCalculateSize == FieldCall("GenerateCalculateSize", GenerateCalculateSize(arg))
FieldWriteTo == FieldCall("GenerateWriteTo", GenerateWriteTo(arg))
FieldIsInitialized == FieldCall("GenerateIsInitialized", GenerateIsInitialized(arg))
FieldNumberConst == FieldCall("GenerateFieldNumberConst", GenerateFieldNumberConst(arg))
FieldItems == FieldCall("GenerateItems", GenerateItems(arg))

\* ---- the enum generator called on its own ----

EnumGenerate ==
    /\ upc = "start"
    /\ uout' = Run(NewPrinter, RustEnumGenerator_Generate(arg))
    /\ upc' = "generated"
    /\ words' = WordsAfterEscape
    /\ UNCHANGED <<arg, driverVars, msgVars>>

\* ---- one iteration of the loop of RustModGenerator::Generate ----

\* rust_mod_generator.cpp:31-39 for the file arg.file with the option
\* imports arg.imports: GenerateFileMod on the index printer, then the file
\* generator on the printer of the file's stream, both printers new
LoopBody ==
    /\ upc = "start"
    /\ uout' = [mod |-> Run(NewPrinter, GenerateFileMod(arg.file, arg.imports)),
                file |-> Run(NewPrinter, RustFileGenerator_Generate(arg.file))]
    /\ upc' = "generated"
    /\ words' = IF FileCallsEscape(arg.file) THEN WordsAfterEscape ELSE words
    /\ UNCHANGED <<arg, driverVars, msgVars>>

\* the undefined read of the extension loop ends the process
LoopBodyCrash ==
    /\ upc = "start"
    /\ FileReadsPastFields(arg.file)
    /\ upc' = "crashed"
    /\ UNCHANGED <<arg, uout, words, driverVars, msgVars>>

-----------------------------------------------------------------------------
(* Specifications.                                                         *)

DriverAtRest ==
    /\ run = 1
    /\ options = <<>>
    /\ oi = 1
    /\ cli_options = DefaultOptions
    /\ error = <<>>
    /\ ret = "none"
    /\ opened = <<>>
    /\ streams = <<>>
    /\ held = {}
    /\ fi = 1
    /\ prev = NoOutcome

DriverIdle == DriverAtRest /\ words = {}

MessageIdle ==
    /\ msg = NoMessage
    /\ mpc = "idle"
    /\ mout = NewPrinter
    /\ mreads = <<>>

UnitIdle ==
    /\ arg = <<>>
    /\ upc = "idle"
    /\ uout = <<>>

\* a request to GenerateAll: any list of files, any parameter string, and a
\* context in which at most one Open fails
Init ==
    /\ files \in FileLists
    /\ parameter \in Parameters
    /\ failing \in 0..(MaxFiles + 1)
    /\ pc = "call"
    /\ DriverIdle
    /\ MessageIdle
    /\ UnitIdle

Next ==
    \/ ParseParameter
    \/ OptionFileExtension
    \/ OptionImports
    \/ OptionUnknown
    \/ OpenMod
    \/ FileMod
    \/ OpenFile
    \/ GenerateFile
    \/ GenerateFileCrash
    \/ EndIteration
    \/ ReturnTrue
    \/ SecondCall

Spec == Init /\ [][Next]_vars

\* the message generator alone, on every message of Messages
InitMsg ==
    /\ files = <<>>
    /\ parameter = <<>>
    /\ failing = 0
    /\ pc = "idle"
    /\ DriverIdle
    /\ msg \in Messages
    /\ mpc = "start"
    /\ mout = NewPrinter
    /\ mreads = <<>>
    /\ UnitIdle

NextMsg == MessageGenerate \/ MessageCrash

SpecMsg == InitMsg /\ [][NextMsg]_vars

\* the driver and the message generator at rest
Idle ==
    /\ files = <<>>
    /\ parameter = <<>>
    /\ failing = 0
    /\ pc = "idle"
    /\ DriverIdle
    /\ MessageIdle

\* the naming helpers alone, on every name of Names
InitName ==
    /\ Idle
    /\ arg \in Names
    /\ upc = "start"
    /\ uout = <<>>

NextName == NameEscape \/ NameMessageMod \/ NameFileMod

SpecName == InitName /\ [][NextName]_vars

\* the field generators alone, on every field of Fields.  A field is
\* generated inside RustMessageGenerator::Generate, whose first statement
\* has called Escape: the static set is constructed.
InitField ==
    /\ files = <<>>
    /\ parameter = <<>>
    /\ failing = 0
    /\ pc = "idle"
    /\ DriverAtRest
    /\ words = ReservedWords
    /\ MessageIdle
    /\ arg \in Fields
    /\ upc = "start"
    /\ uout = NewPrinter

NextField ==
    \/ FieldStructField
    \/ FieldMergeBranches
    \/ FieldCalculateSize
    \/ FieldWriteTo
    \/ FieldIsInitialized
    \/ FieldNumberConst
    \/ FieldItems

SpecField == InitField /\ [][NextField]_vars

\* the enum generator alone, on every enum of Enums
InitEnum ==
    /\ Idle
    /\ arg \in Enums
    /\ upc = "start"
    /\ uout = NewPrinter

NextEnum == EnumGenerate

SpecEnum == InitEnum /\ [][NextEnum]_vars

\* one iteration of the index loop alone, on every input of ShapeInputs
InitShape ==
    /\ Idle
    /\ arg \in ShapeInputs
    /\ upc = "start"
    /\ uout = [mod |-> NewPrinter, file |-> NewPrinter]

NextShape == LoopBody \/ LoopBodyCrash

SpecShape == InitShape /\ [][NextShape]_vars

-----------------------------------------------------------------------------
(* Properties of GenerateAll.                                              *)

RecognizedKeys == {S_file_extension, S_imports}

\* the positions of the pairs whose key is not a recognized one, as the
\* external splitter cuts the parameter
UnknownAt == {i \in 1..Len(ParseGeneratorParameter(parameter)) :
                 ParseGeneratorParameter(parameter)[i][1] \notin RecognizedKeys}

FirstUnknownKey ==
    ParseGeneratorParameter(parameter)[CHOOSE i \in UnknownAt :
                                          \A j \in UnknownAt : i <= j][1]

\* C1: when the parameter holds a key other than file_extension and imports,
\* no stream is ever opened on the context (not even mod.rs), and the call
\* returns false with the error "Unknown generator option: <key>" for the
\* first such key in parameter order.
C1_UnknownOptionFails ==
    UnknownAt # {} =>
        /\ opened = <<>>
        /\ streams = <<>>
        /\ pc \in {"call", "options", "returned"}
        /\ pc = "returned" =>
              /\ ret = "false"
              /\ error = S_unknown_option \o FirstUnknownKey

\* the call has returned on an unknown key that follows a recognized option
\* and precedes nothing or another unknown key
C1_Witness ==
    /\ pc = "returned"
    /\ ret = "false"
    /\ oi = 2
    /\ error = S_unknown_option \o <<"b", "a", "d">>

\* C2: the call with the parameter "imports=a,b" returns true, and the
\* Options record then holds the imports a and b, in that order.
C2_ImportsListRecognized ==
    (parameter = S_imports \o <<"=", "a", ",", "b">> /\ pc = "returned") =>
        /\ ret = "true"
        /\ cli_options.imports = << <<"a">>, <<"b">> >>

\* C3: every per-file source is opened at a path that ends in the value of
\* the file_extension option, ".rs" when the option is not given.
C3_FileExtensionIsSuffix ==
    \A i \in 2..Len(opened) : EndsWith(opened[i], cli_options.file_extension)

\* the Open calls of a whole run over the request's files
ExpectedOpens ==
    <<S_mod_rs>> \o [i \in 1..Len(files) |->
                        files[i].name \o <<"/","p","r","o","t","r","u","s","t",".","r","s">>]

\* C4: with recognized options the Open calls made so far are, in order, the
\* first of "mod.rs", f1.name/protrust.rs, ..., fn.name/protrust.rs, and when
\* GenerateAll returns all n+1 have been made, each once.
C4_OpenSequence ==
    UnknownAt = {} =>
        /\ IsPrefix(opened, ExpectedOpens)
        /\ pc \in {"loop", "open", "generate", "end", "returned", "crashed"} =>
              opened[1] = S_mod_rs
        /\ pc = "returned" => opened = ExpectedOpens

\* a run over a/b.proto and c.proto has returned
C4_Witness ==
    /\ pc = "returned"
    /\ ret = "true"
    /\ opened = <<S_mod_rs,
                  N_a_b_proto \o <<"/">> \o S_protrust \o S_dot_rs,
                  N_c_proto \o <<"/">> \o S_protrust \o S_dot_rs>>

\* the Print calls on the index that open a file's block:
\* #[path = "$file_dir$"] pub mod $file_mod$ {
RECURSIVE ModBlocks(_)
ModBlocks(out) ==
    IF out = <<>> THEN <<>>
    ELSE (IF out[1].k = "mod.file_open" THEN <<out[1].args>> ELSE <<>>)
         \o ModBlocks(Tail(out))

IndexBlocks == IF streams = <<>> THEN <<>> ELSE ModBlocks(streams[ModStream].out)

\* C5: the index holds one block per file handled so far, in request order,
\* the i-th with the path attribute and the module name of the i-th file;
\* the block of a file is in the index when the file's own stream is opened
\* (hence before any text is printed on it); and when GenerateAll returns
\* there is exactly one block per file of the request.
C5_IndexBlocks ==
    /\ Len(IndexBlocks) <= Len(files)
    /\ \A i \in 1..Len(IndexBlocks) :
          IndexBlocks[i] = <<Join(files[i].name), Join(GetFileModName(files[i]))>>
    /\ \A j \in 2..Len(streams) : Len(IndexBlocks) >= j - 1
    /\ pc = "returned" /\ ret = "true" => Len(IndexBlocks) = Len(files)

\* the second file's stream has just been opened: two blocks in the index,
\* nothing printed yet on the second file's stream
C5_Witness ==
    /\ pc = "generate"
    /\ fi = 2
    /\ Len(IndexBlocks) = 2
    /\ streams[3].out = <<>>
    /\ IndexBlocks[2][1] = "c.proto"

\* C6: when an Open fails, GenerateAll does not return success, and no
\* stream is opened after the failing one.
C6_OpenFailurePropagated ==
    (failing \in 1..Len(opened)) =>
        /\ Len(opened) = failing
        /\ pc = "returned" => ret # "true"

\* C7 as claimed: at every point of a run at most one stream is held by a
\* printer.
C7_AtMostOneStreamHeld == Cardinality(held) <= 1

\* C7 as the code has it: the printer of mod.rs is held from its Open until
\* Generate returns; besides it at most one per-file printer is held, and
\* none is held when the next per-file Open is made; nothing is held once
\* GenerateAll has returned.
C7_IndexHeldOnePerFile ==
    /\ Cardinality(held \ {ModStream}) <= 1
    /\ pc \in {"loop", "open", "generate", "end"} => ModStream \in held
    /\ pc \in {"loop", "open"} => held = {ModStream}
    /\ pc \in {"generate", "end"} => held = {ModStream, Len(streams)}
    /\ pc = "returned" => held = {}

\* the second file's stream is open: its printer and the index's are held,
\* the first file's is not
C7_Witness ==
    /\ pc = "generate"
    /\ fi = 2
    /\ held = {ModStream, 3}
    /\ 2 \in Released

\* processing of the file after f is about to begin
NextFileBegins == pc = "loop" /\ fi > 1 /\ fi <= Len(files)

\* C8 as claimed: when processing of the next file begins, the printer of
\* the index and the printer of f's source have both finished.
C8_BothFlushedBeforeNextFile ==
    NextFileBegins => ModStream \in Released /\ fi \in Released

\* C8 as the code has it: when processing of the next file begins, the
\* printer of f's source has finished, f's block has been printed on the
\* index up to its closing brace with the indentation back at zero, and the
\* index printer is still held; it finishes when Generate returns.
C8_FileFlushedIndexBlockPrinted ==
    /\ NextFileBegins =>
          /\ fi \in Released
          /\ ModStream \in held
          /\ Len(IndexBlocks) = fi - 1
          /\ streams[ModStream].indent = 0
          /\ streams[ModStream].out[Len(streams[ModStream].out)].k = "}"
    /\ pc = "returned" /\ ret = "true" => ModStream \in Released

\* the first of two files is done and the second is about to begin
C8_Witness ==
    /\ NextFileBegins
    /\ fi = 2
    /\ streams[2].out # <<>>
    /\ Len(IndexBlocks) = 1

\* C9: the second call of GenerateAll on the same request opens the paths
\* the first call opened, in the same order, and when it returns the opened
\* paths, the content of every stream, the return flag and the error string
\* are those of the first call.
C9_Determinism ==
    run = 2 =>
        /\ IsPrefix(opened, prev.opened)
        /\ \A j \in 1..Len(streams) :
              j \in Released => streams[j] = prev.streams[j]
        /\ pc = "returned" => Outcome = prev

\* the second call has returned, with option imports read in both calls
C9_Witness ==
    /\ run = 2
    /\ pc = "returned"
    /\ ret = "true"
    /\ Len(streams) = 3
    /\ cli_options.imports # <<>>
    /\ words # {}

-----------------------------------------------------------------------------
(* Properties of RustMessageGenerator::Generate (specification SpecMsg).   *)

\* record n opens the message's nested module
IsModuleOpen(n) == mout.out[n].k = "msg.mod_open"

\* what the generator printed for the message itself: the records
\* 1..OwnLen, those before its nested module opens
OwnLen ==
    IF \E n \in 1..Len(mout.out) : IsModuleOpen(n)
    THEN (CHOOSE n \in 1..Len(mout.out) :
              IsModuleOpen(n) /\ \A j \in 1..(n - 1) : ~IsModuleOpen(j)) - 1
    ELSE Len(mout.out)

ArtifactKinds == {"member", "arm", "size", "write", "constant", "accessors"}

\* the kind of per-field artifact a Print record is, "" when it is none
ArtifactKind(r) ==
    CASE r.k = "struct_field" -> "member"
      [] r.k \in {"merge.primitive.proto2", "merge.primitive.proto3", "merge.message",
                  "merge.repeated.packed_unpacked", "merge.repeated.unpacked_packed",
                  "merge.repeated.unpacked"} -> "arm"
      [] r.k \in {"size.repeated", "size.repeated.packed"} -> "size"
      [] r.k \in {"write.repeated", "write.repeated.packed"} -> "write"
      [] r.k = "field_number_const" -> "constant"
      [] r.k \in {"items.primitive.proto2.copy", "items.primitive.proto2.ref",
                  "items.primitive.proto3", "items.message", "items.repeated"} ->
            "accessors"
      [] OTHER -> ""

\* whether record r is field's artifact: members and accessors carry the
\* field's identifier, the others the name of its number constant
IsArtifactOf(r, field) ==
    CASE ArtifactKind(r) \in {"member", "accessors"} ->
            r.args[1] = Join(GetFieldName(field))
      [] ArtifactKind(r) = "constant" -> r.args[1] = GetFieldNumberName(field)
      [] ArtifactKind(r) = "arm" ->
            r.args[IF r.k \in {"merge.primitive.proto2", "merge.primitive.proto3",
                               "merge.message"} THEN 3 ELSE 4]
                = GetFieldNumberName(field)
      [] ArtifactKind(r) \in {"size", "write"} -> r.args[2] = GetFieldNumberName(field)
      [] OTHER -> FALSE

\* the positions in the message's own text of field i's artifact of a kind
Positions(kind, i) ==
    {n \in 1..OwnLen :
        /\ ArtifactKind(mout.out[n]) = kind
        /\ IsArtifactOf(mout.out[n], msg.field[i])}

\* C10: in the text of a generated message every field has exactly one
\* struct member, one merge Print, one number constant and one accessor
\* block, and at most one size and one write contribution; for each of the
\* six kinds the artifacts stand in field index order; every artifact
\* belongs to a field of the message; and a field's number constant is
\* immediately followed by that field's accessors.
C10_DescriptorOrder ==
    mpc = "done" =>
        /\ \A kind \in {"member", "arm", "constant", "accessors"} :
              \A i \in 1..Len(msg.field) : Cardinality(Positions(kind, i)) = 1
        /\ \A kind \in {"size", "write"} :
              \A i \in 1..Len(msg.field) : Cardinality(Positions(kind, i)) <= 1
        /\ \A kind \in ArtifactKinds :
              \A i, j \in 1..Len(msg.field) :
                 i < j => \A n \in Positions(kind, i), m \in Positions(kind, j) : n < m
        /\ \A n \in 1..OwnLen :
              ArtifactKind(mout.out[n]) # "" =>
                 \E i \in 1..Len(msg.field) : IsArtifactOf(mout.out[n], msg.field[i])
        /\ \A i \in 1..Len(msg.field) :
              \A n \in Positions("constant", i) : n + 1 \in Positions("accessors", i)

\* a message with a nested type, a packed repeated field first and a string
\* field second has been generated; both have size contributions or not as
\* their variant has it
C10_Witness ==
    /\ mpc = "done"
    /\ Len(msg.field) = 2
    /\ msg.nested_type # <<>>
    /\ msg.field[1].is_packed
    /\ msg.field[2].type = "STRING"
    /\ Positions("size", 1) # {}
    /\ \E n \in Positions("constant", 1), m \in Positions("constant", 2) : m = n + 2

-----------------------------------------------------------------------------
(* Properties of the naming helpers (specification SpecName).              *)

\* C11: the identifier emitted for a message, enum, enum value or field
\* with simple name s is "r#" followed by s when s is one of the 46
\* reserved words, and s itself otherwise.
C11_KeywordSafety ==
    /\ Cardinality(ReservedNames) = 46
    /\ upc = "escaped" =>
          LET expected == IF arg \in ReservedNames THEN <<"r", "#">> \o arg ELSE arg
          IN  /\ uout.message = expected
              /\ uout.enum = expected
              /\ uout.value = expected
              /\ uout.field = expected

\* the word "type" has been escaped for all four kinds of descriptor
C11_Witness ==
    /\ upc = "escaped"
    /\ arg = <<"t", "y", "p", "e">>
    /\ uout.field = <<"r", "#", "t", "y", "p", "e">>
    /\ uout.value = uout.field

\* the snake case of a name as C12 words it: every uppercase letter
\* lowercased, with an underscore before it when the character before it
\* is a lowercase letter
RECURSIVE SnakeCaseFrom(_, _)
SnakeCaseFrom(name, i) ==
    IF i > Len(name) THEN <<>>
    ELSE (IF IsUpper(name[i])
          THEN (IF i > 1 /\ IsLower(name[i - 1]) THEN <<"_">> ELSE <<>>)
               \o <<ToLowerChar(name[i])>>
          ELSE <<name[i]>>)
         \o SnakeCaseFrom(name, i + 1)

\* C12: the module name of a message with simple name N is N with every
\* uppercase letter lowercased and an underscore inserted before an
\* uppercase letter exactly when the character before it is a lowercase
\* letter.
C12_SnakeCase == upc = "mod_named" => uout = SnakeCaseFrom(arg, 1)

\* C13: the module name of a file named p has the length of p, has every
\* letter of p at its position with its case, and has an underscore at
\* every position where p has a character that is not a letter.
C13_FileModName ==
    upc = "file_mod_named" =>
        /\ Len(uout) = Len(arg)
        /\ \A i \in 1..Len(arg) :
              IF arg[i] \in {Upper[j] : j \in 1..26} \cup {Lower[j] : j \in 1..26}
              THEN uout[i] = arg[i]
              ELSE uout[i] = "_"

\* a name with a letter, a slash and a digit has been converted
C13_Witness ==
    /\ upc = "file_mod_named"
    /\ arg = <<"A", "/", "1">>
    /\ uout = <<"A", "_", "_">>

-----------------------------------------------------------------------------
(* Properties of the field generators (specification SpecField).           *)

\* the wire type of a field type as C14 lists it
ClaimedWireType(type) ==
    CASE type \in {"INT32", "INT64", "UINT32", "UINT64", "SINT32", "SINT64", "BOOL",
                   "ENUM"} -> 0
      [] type \in {"FIXED64", "SFIXED64", "DOUBLE"} -> 1
      [] type \in {"FIXED32", "SFIXED32", "FLOAT"} -> 5
      [] type \in {"MESSAGE", "BYTES", "STRING"} -> 2
      [] type = "GROUP" -> 3

\* the decimal digits of 8 * n + carry, n given by its decimal digits:
\* the multiplication done on paper, digit by digit from the right
RECURSIVE TimesEightPlus(_, _)
TimesEightPlus(digits, carry) ==
    IF digits = <<>> THEN (IF carry = 0 THEN <<>> ELSE DecNat(carry))
    ELSE LET t == (IndexIn(digits[Len(digits)], Digits) - 1) * 8 + carry
         IN  TimesEightPlus(SubSeq(digits, 1, Len(digits) - 1), t \div 10)
             \o <<Digits[(t % 10) + 1]>>

\* the decimal text of the tag of a field, n * 8 + WireType(t)
ClaimedTagText(field, wt) == Join(TimesEightPlus(DecNat(field.number), wt))

\* the text of the tag of the field's own wire type in its merge Print
MergeTagText ==
    IF CreateFieldGenerator(arg) \in {"primitive", "message"}
    THEN uout.out[1].args[1]
    ELSE uout.out[1].args[2]

\* C14: for every field type and every field number up to 2^29 - 1 the
\* tag printed in the field's merge arm is the decimal text of
\* n * 8 + WireType(t), with no wraparound at 32 bits.
C14_TagComputation ==
    upc = "GenerateMergeBranches" =>
        /\ Len(uout.out) = 1
        /\ MergeTagText = ClaimedTagText(arg, ClaimedWireType(arg.type))

\* the merge arm of a singular fixed32 field with the largest field number
C14_Witness ==
    /\ upc = "GenerateMergeBranches"
    /\ arg.number = 536870911
    /\ arg.type = "FIXED32"
    /\ ~is_repeated(arg)
    /\ MergeTagText = "4294967293"

\* all the merge arms the call printed
RECURSIVE ArmsOf(_)
ArmsOf(out) == IF out = <<>> THEN <<>> ELSE MergeArms(out[1]) \o ArmsOf(Tail(out))

\* the types C15 calls packable: every type but the length-delimited ones
\* and groups
ClaimedPackable(type) == type \notin {"STRING", "BYTES", "MESSAGE", "GROUP"}

\* C15: a packable repeated field has exactly two merge arms, with the tag
\* of its own wire type and the tag of wire type 2; the arm of wire type 2
\* takes Packed<Raw> and is first exactly when the field is packed.  Every
\* other repeated field, map fields included, has exactly one arm, with
\* the tag of its own wire type.
C15_RepeatedMergeArms ==
    upc = "GenerateMergeBranches" /\ arg.label = "repeated" =>
        LET arms == ArmsOf(uout.out)
            own == ClaimedTagText(arg, ClaimedWireType(arg.type))
            two == ClaimedTagText(arg, 2)
            raw == GetRawFieldType(arg)
        IN  IF ClaimedPackable(arg.type)
            THEN /\ Len(arms) = 2
                 /\ \E i, j \in 1..2 :
                       /\ i # j
                       /\ arms[i] = [tag |-> two,
                                     type |-> "__prelude::pr::Packed<" \o raw \o ">"]
                       /\ arms[j] = [tag |-> own, type |-> raw]
                       /\ (i = 1) <=> arg.is_packed
            ELSE /\ Len(arms) = 1
                 /\ arms[1].tag = own

\* a packed repeated int32 field numbered 15: the arm of tag 122 first
C15_Witness ==
    /\ upc = "GenerateMergeBranches"
    /\ arg.label = "repeated"
    /\ arg.type = "INT32"
    /\ arg.number = 15
    /\ arg.is_packed
    /\ ArmsOf(uout.out)[1].tag = "122"
    /\ ArmsOf(uout.out)[2].tag = "120"

\* the modules of the enclosing messages, the outermost (the last of the
\* chain) first
RECURSIVE AncestorSegments(_)
AncestorSegments(chain) ==
    IF chain = <<>> THEN ""
    ELSE AncestorSegments(Tail(chain))
         \o Join(GetMessageModName(Named(chain[1]))) \o "::"

\* the path of a referenced type as C16 words it
ClaimedPath(field) ==
    "__file::"
    \o (IF field.target.file # field.file.name
        THEN "__imports::" \o Join(GetFileModNameOf(field.target.file)) \o "::"
        ELSE "")
    \o AncestorSegments(field.target.containing)
    \o (IF field.target.name \in ReservedNames THEN "r#" ELSE "")
    \o Join(field.target.name)

\* C16: the value type of a field referring to a message, group or enum T
\* is "__file::", then "__imports::<module of T's file>::" exactly when
\* T's file is not the field's, then the module of each message enclosing
\* T from the outermost in, then the escaped name of T; the default value
\* of an enum field is that path followed by the value's name.
C16_CrossFileReferences ==
    upc = "GenerateItems" /\ arg.type \in {"MESSAGE", "GROUP", "ENUM"}
                         /\ CreateFieldGenerator(arg) # "map" =>
        LET r == uout.out[1]
        IN  CASE CreateFieldGenerator(arg) = "message" -> r.args[3] = ClaimedPath(arg)
              [] CreateFieldGenerator(arg) = "primitive" ->
                    /\ r.args[3] = ClaimedPath(arg)
                    /\ r.args[7] = ClaimedPath(arg) \o "::"
                            \o (IF arg.default_enum \in ReservedNames THEN "r#" ELSE "")
                            \o Join(arg.default_enum)
              [] CreateFieldGenerator(arg) = "repeated" ->
                    r.args[2] = "__prelude::RepeatedField<" \o ClaimedPath(arg) \o ">"

\* a field of a/b.proto refers to Inner of c.proto, nested in Outer, itself
\* nested in HTTP
C16_Witness ==
    /\ upc = "GenerateItems"
    /\ arg.type = "MESSAGE"
    /\ arg.label = "optional"
    /\ arg.file.name = N_a_b_proto
    /\ arg.target.containing = <<N_Outer, <<"H", "T", "T", "P">>>>
    /\ uout.out[1].args[3] = "__file::__imports::c_proto::h_t_t_p::outer::Inner"

\* the prefix and suffix of every function of an accessor block
AccessorForms(r) ==
    {<<Accessors(r)[i].prefix, Accessors(r)[i].suffix>> : i \in 1..Len(Accessors(r))}

\* C17: for a singular field that is not a message or group, in a proto2
\* file the member type is Option<V>, the default is a const named
\* <NAME>_DEFAULT, a merge arm merges into
\* self.<name>.get_or_insert_with(Default::default) and the accessors are
\* the reader, _option, _mut, has_, set_, take_ and clear_; in a proto3
\* file the member type is V, the default is a static, a merge arm merges
\* into &mut self.<name> and the accessors are the reader and _mut.  The
\* file of a referenced type plays no part.
C17_Proto2Proto3 ==
    arg.label = "optional" /\ arg.type \notin {"MESSAGE", "GROUP"} /\ upc # "start" =>
        LET r == uout.out[1]
            proto2 == arg.file.syntax = "proto2"
            name == (IF arg.name \in ReservedNames THEN "r#" ELSE "") \o Join(arg.name)
        IN  /\ upc = "GenerateStructField" =>
                  r.args[2] = IF proto2
                              THEN "__prelude::Option<" \o GetRustType(arg) \o ">"
                              ELSE GetRustType(arg)
            /\ upc = "GenerateMergeBranches" =>
                  MergeTarget(r) =
                      IF proto2
                      THEN "self." \o name
                               \o ".get_or_insert_with(__prelude::Default::default)"
                      ELSE "&mut self." \o name
            /\ upc = "GenerateItems" =>
                  /\ DefaultKeyword(r) = IF proto2 THEN "const" ELSE "static"
                  /\ r.args[4] = Join(UpperOf(arg.name)) \o "_DEFAULT"
                  /\ AccessorForms(r) =
                        IF proto2
                        THEN {<<"", "">>, <<"", "_option">>, <<"", "_mut">>,
                              <<"has_", "">>, <<"set_", "">>, <<"take_", "">>,
                              <<"clear_", "">>}
                        ELSE {<<"", "">>, <<"", "_mut">>}

\* the accessors of an enum field of a proto2 file whose enum is declared in
\* the proto3 file c.proto
C17_Witness ==
    /\ upc = "GenerateItems"
    /\ arg.type = "ENUM"
    /\ arg.label = "optional"
    /\ arg.file.syntax = "proto2"
    /\ arg.target.file = N_c_proto
    /\ DefaultKeyword(uout.out[1]) = "const"
    /\ Len(Accessors(uout.out[1])) = 7

-----------------------------------------------------------------------------
(* Size and write contributions (specification SpecMsg).                   *)

\* the positions in the message's own text of the Prints of a template
PositionsOf(k) == {n \in 1..OwnLen : mout.out[n].k = k}

\* C18: every field of a message, whatever its variant, has a size
\* contribution in calculate_size and a write statement in write_to, so a
\* field with a merge arm has both; after the fields write_to writes the
\* extension set, if the message has extension ranges, and then the
\* unknown fields.
C18_SizeAndWriteForEveryField ==
    mpc = "done" =>
        /\ \A i \in 1..Len(msg.field) :
              /\ Positions("arm", i) # {}
              /\ Positions("size", i) # {}
              /\ Positions("write", i) # {}
        /\ Cardinality(PositionsOf("msg.write_unknown_fields_ok")) = 1
        /\ Cardinality(PositionsOf("msg.write_extensions")) =
              IF msg.extension_range_count # 0 THEN 1 ELSE 0
        /\ \A u \in PositionsOf("msg.write_unknown_fields_ok") :
              /\ \A e \in PositionsOf("msg.write_extensions") : e + 1 = u
              /\ \A i \in 1..Len(msg.field) : \A w \in Positions("write", i) : w < u

-----------------------------------------------------------------------------
(* The extension set of a message (specification SpecMsg).                 *)

\* the Print kinds that exist only for a message with extension ranges
ExtensionSetKinds ==
    {"msg.struct_extensions", "msg.merge_default_ext", "msg.size_extensions",
     "msg.write_extensions", "msg.impl_extendable"}

\* C21: the member __extensions, the extensions step of the default merge
\* arm, the extension contributions of calculate_size and write_to and the
\* impl of ExtendableMessage are each printed once when the descriptor has
\* an extension range and none of them is printed otherwise; the member
\* __unknown_fields is always printed and is the last member of the struct;
\* so no text reads self.__extensions unless the member is declared before.
C21_ExtensionSetConsistency ==
    mpc = "done" =>
        LET ranged == msg.extension_range_count # 0
            members == {n \in 1..OwnLen : StructMember(mout.out[n]) # ""}
        IN  /\ \A k \in ExtensionSetKinds :
                  Cardinality(PositionsOf(k)) = IF ranged THEN 1 ELSE 0
            /\ Cardinality(PositionsOf("msg.merge_default")) = IF ranged THEN 0 ELSE 1
            /\ \A n \in 1..OwnLen :
                  /\ ReferencesExtensions(mout.out[n]) =>
                        \E m \in 1..(n - 1) : StructMember(mout.out[m]) = "__extensions"
                  /\ StructMember(mout.out[n]) = "__extensions" => ranged
            /\ members = 2..(1 + Len(msg.field) + (IF ranged THEN 2 ELSE 1))
            /\ \A n \in members :
                  (StructMember(mout.out[n]) = "__unknown_fields")
                      <=> (\A m \in members : m <= n)
            /\ \A n \in members : n + 1 \notin members => mout.out[n + 1].k = "}"
            \* the nested message of the inputs declares no extension range
            /\ \A n \in (OwnLen + 1)..Len(mout.out) :
                  mout.out[n].k \notin ExtensionSetKinds

\* a message with a field, an extension range and a nested type has been
\* generated: its struct ends with __extensions and __unknown_fields
C21_Witness ==
    /\ mpc = "done"
    /\ msg.extension_range_count # 0
    /\ Len(msg.field) = 1
    /\ msg.nested_type # <<>>
    /\ StructMember(mout.out[3]) = "__extensions"
    /\ StructMember(mout.out[4]) = "__unknown_fields"
    /\ \E n \in 1..OwnLen : mout.out[n].k = "msg.impl_extendable"

-----------------------------------------------------------------------------
(* Properties of RustEnumGenerator::Generate (specification SpecEnum).     *)

\* the Prints of a template in the enum's text, in order
PrintsOf(k) == SelectSeq(uout.out, LAMBDA r : r.k = k)

\* the position of the only Print of a template, 0 when there is not
\* exactly one
PositionOf(k) ==
    IF Cardinality({n \in 1..Len(uout.out) : uout.out[n].k = k}) = 1
    THEN CHOOSE n \in 1..Len(uout.out) : uout.out[n].k = k
    ELSE 0

\* the decimal text of the value numbers of EnumValues
NumberText(n) == CASE n = 0 -> "0" [] n = 1 -> "1" [] n = -1 -> "-1"

EscapedText(name) == (IF name \in ReservedNames THEN "r#" ELSE "") \o Join(name)

\* C19: an enum with values v1..vk has exactly k constants in descriptor
\* order, constant i with the number of vi; its Debug match, under
\* #[allow(unreachable_patterns)], has exactly k named arms in descriptor
\* order and then exactly one catch-all arm, which is last; and its
\* Default is Self(0) whatever the numbers of the values, also for k = 0.
C19_EnumEmission ==
    upc = "generated" =>
        LET k == Len(arg.value)
            consts == PrintsOf("enum.value_const")
            arms == PrintsOf("enum.debug_arm")
            open == PositionOf("enum.allow_unreachable_match_open")
            fallback == PositionOf("enum.debug_fallback")
        IN  /\ Len(consts) = k
            /\ \A i \in 1..k :
                  consts[i].args = <<EscapedText(arg.value[i].name),
                                     NumberText(arg.value[i].number)>>
            /\ Len(arms) = k
            /\ open # 0
            /\ fallback = open + k + 1
            /\ \A i \in 1..k :
                  /\ uout.out[open + i].k = "enum.debug_arm"
                  /\ DebugArm(uout.out[open + i]).pattern =
                        EscapedText(arg.value[i].name)
            /\ uout.out[fallback + 1].k = "}"
            /\ DefaultBody(uout.out[1]) = "Self(0)"

\* an enum with two values of number 1 and none of number 0
C19_Witness ==
    /\ upc = "generated"
    /\ Len(arg.value) = 2
    /\ arg.value[1].number = 1
    /\ arg.value[2].number = 1
    /\ Len(PrintsOf("enum.debug_arm")) = 2
    /\ PrintsOf("enum.value_const")[2].args[2] = "1"

\* C20: the string a Debug arm writes is the declared name of its value,
\* whatever the name, reserved words included.
C20_DebugWritesDeclaredName ==
    upc = "generated" =>
        \A i \in 1..Len(arg.value) :
            DebugArm(PrintsOf("enum.debug_arm")[i]).written = Join(arg.value[i].name)

-----------------------------------------------------------------------------
(* Properties of one iteration of the index loop (specification SpecShape). *)

\* The types a message brings into its file, in the order the generator
\* reaches them: the message, its nested messages each with its own, then
\* its enums.  containing lists the names of the enclosing messages from
\* the innermost outwards.
RECURSIVE TypesOfMessage(_, _)
TypesOfMessage(message, containing) ==
    <<[name |-> message.name, containing |-> containing, descriptor |-> "message",
       type |-> message]>>
    \o ForEach([i \in DOMAIN message.nested_type |->
                   TypesOfMessage(message.nested_type[i], <<message.name>> \o containing)])
    \o [i \in DOMAIN message.enum_type |->
           [name |-> message.enum_type[i].name,
            containing |-> <<message.name>> \o containing,
            descriptor |-> "enum", type |-> message.enum_type[i]]]

TypesOfFile(file) ==
    ForEach([i \in DOMAIN file.message_type |-> TypesOfMessage(file.message_type[i], <<>>)])
    \o [i \in DOMAIN file.enum_type |->
           [name |-> file.enum_type[i].name, containing |-> <<>>,
            descriptor |-> "enum", type |-> file.enum_type[i]]]

\* the Prints that begin a type in the text of the file, in order
TypeOpenings ==
    SelectSeq(uout.file.out,
              LAMBDA r : r.k \in {"msg.struct_open", "enum.struct_and_conversions"})

\* Indentation over a list of printer calls, relative to the level at its
\* start and without the printer's floor at zero: low is the lowest level
\* reached, end the level after the last call.
RECURSIVE IndentSweep(_)
IndentSweep(calls) ==
    IF Len(calls) = 0 THEN [low |-> 0, end |-> 0]
    ELSE IF Len(calls) = 1
    THEN CASE calls[1].op = "Indent" -> [low |-> 0, end |-> 1]
           [] calls[1].op = "Outdent" -> [low |-> -1, end |-> -1]
           [] OTHER -> [low |-> 0, end |-> 0]
    ELSE LET half == Len(calls) \div 2
             a == IndentSweep(SubSeq(calls, 1, half))
             b == IndentSweep(SubSeq(calls, half + 1, Len(calls)))
         IN  [low |-> IF a.end + b.low < a.low THEN a.end + b.low ELSE a.low,
              end |-> a.end + b.end]

Balanced(calls) == IndentSweep(calls) = [low |-> 0, end |-> 0]

\* C22: the calls of GenerateFileMod, of the file generator and of the
\* Generate call of every message and enum of the file, nested ones
\* included, never take the indentation below its level at entry and leave
\* it at that level; both printers of the iteration end at level 0; and
\* every type of the file begins at the level that is the number of the
\* messages enclosing it.
C22_IndentationBalanced ==
    upc = "generated" =>
        LET types == TypesOfFile(arg.file)
        IN  /\ Balanced(GenerateFileMod(arg.file, arg.imports))
            /\ Balanced(RustFileGenerator_Generate(arg.file))
            /\ \A i \in 1..Len(types) :
                  Balanced(IF types[i].descriptor = "message"
                           THEN RustMessageGenerator_Generate(types[i].type)
                           ELSE RustEnumGenerator_Generate(types[i].type))
            /\ uout.mod.indent = 0
            /\ uout.file.indent = 0
            /\ Len(TypeOpenings) = Len(types)
            /\ \A i \in 1..Len(types) :
                  /\ TypeOpenings[i].args[1] = Join(types[i].name)
                  /\ TypeOpenings[i].ind = Len(types[i].containing)

\* an enum nested three messages deep has been generated: its Debug arm is
\* printed at level 6
C22_Witness ==
    /\ upc = "generated"
    /\ \E n \in 1..Len(uout.file.out) :
          /\ uout.file.out[n].k = "enum.struct_and_conversions"
          /\ uout.file.out[n].ind = 3
    /\ \E n \in 1..Len(uout.file.out) :
          /\ uout.file.out[n].k = "enum.debug_arm"
          /\ uout.file.out[n].ind = 6
    /\ uout.file.indent = 0

\* the position in the text of the file of the i-th type opening
OpeningAt(i) ==
    LET at == {n \in 1..Len(uout.file.out) :
                  uout.file.out[n].k \in {"msg.struct_open", "enum.struct_and_conversions"}}
    IN  CHOOSE n \in at : Cardinality({m \in at : m <= n}) = i

\* the name of the module open at level l where record n is printed: the
\* last module opened at that level before n
ModuleAt(n, l) ==
    LET opened_at == {m \in 1..(n - 1) : /\ uout.file.out[m].k = "msg.mod_open"
                                         /\ uout.file.out[m].ind = l}
    IN  uout.file.out[CHOOSE m \in opened_at : \A j \in opened_at : j <= m].args[1]

\* the modules enclosing record n from the outermost in, each followed by
\* "::", up to level l
RECURSIVE EnclosingModules(_, _)
EnclosingModules(n, l) ==
    IF l = 0 THEN "" ELSE EnclosingModules(n, l - 1) \o ModuleAt(n, l - 1) \o "::"

\* a field of the file named from that refers to the type
ReferenceFrom(from, type) ==
    LET target == [name |-> type.name, file |-> arg.file.name,
                   containing |-> type.containing]
        f == FileRef(from, "proto2")
    IN  IF type.descriptor = "message" THEN MessageField(<<"f">>, 1, target, f)
        ELSE EnumField(<<"f">>, 1, target, <<"A">>, f)

\* the name of a file that is not the generated one
AnotherFile == IF arg.file.name = N_c_proto THEN N_a_b_proto ELSE N_c_proto

\* C23: the nested modules of the file are those of its messages that
\* have a nested message, a nested enum, an extension or a oneof, in the
\* order of the messages and named by GetMessageModName; and the path by
\* which GetRustType refers to a type of the file is "__file::", the
\* "__imports::" segment of the file when the reference is made from
\* another file, the modules that enclose the type where it is printed,
\* from the outermost in, and the type's name.
C23_NestedPlacement ==
    upc = "generated" =>
        LET types == TypesOfFile(arg.file)
            with_items == SelectSeq(types, LAMBDA t :
                              /\ t.descriptor = "message"
                              /\ \/ t.type.nested_type # <<>>
                                 \/ t.type.enum_type # <<>>
                                 \/ t.type.extension # <<>>
                                 \/ t.type.oneof_decl_count > 0)
            modules == SelectSeq(uout.file.out, LAMBDA r : r.k = "msg.mod_open")
        IN  /\ Len(modules) = Len(with_items)
            /\ \A i \in 1..Len(modules) :
                  /\ modules[i].args[1] = Join(GetMessageModName(with_items[i].type))
                  /\ modules[i].ind = Len(with_items[i].containing)
            /\ \A i \in 1..Len(types) :
                  LET n == OpeningAt(i)
                      placed == EnclosingModules(n, uout.file.out[n].ind)
                                   \o uout.file.out[n].args[1]
                  IN  /\ GetRustType(ReferenceFrom(arg.file.name, types[i]))
                            = "__file::" \o placed
                      /\ GetRustType(ReferenceFrom(AnotherFile, types[i]))
                            = "__file::__imports::" \o Join(GetFileModName(arg.file))
                                 \o "::" \o placed

\* Inner, nested in AB, nested in Outer, has been printed inside the
\* modules outer and a_b, and is referred to as __file::outer::a_b::Inner
C23_Witness ==
    /\ upc = "generated"
    /\ Len(TypesOfFile(arg.file)) >= 3
    /\ TypesOfFile(arg.file)[3].name = N_Inner
    /\ TypesOfFile(arg.file)[3].containing = <<<<"A", "B">>, N_Outer>>
    /\ uout.file.out[OpeningAt(3)].ind = 2
    /\ EnclosingModules(OpeningAt(3), 2) = "outer::a_b::"
    /\ GetRustType(ReferenceFrom(arg.file.name, TypesOfFile(arg.file)[3]))
          = "__file::outer::a_b::Inner"

-----------------------------------------------------------------------------
(* The descriptor reads of RustMessageGenerator::Generate (SpecMsg).       *)

\* the reads the extension loop of the message itself made: the last ones
\* of the run
ExtensionLoopReads ==
    SelectSeq(mreads, LAMBDA r : r.loop = "GenerateExtension")

\* C24: the extension loop, which comes after the nested messages and the
\* nested enums, makes one GenerateExtension call for each extension
\* declared in the message, in declaration order, and makes the i-th call
\* on message.extension(i), not on a field of the message.
C24_ExtensionLoopReadsExtensions ==
    mpc = "done" =>
        /\ Len(ExtensionLoopReads) = Len(msg.extension)
        /\ \A i \in 1..Len(ExtensionLoopReads) :
              /\ ExtensionLoopReads[i].index = i - 1
              /\ ExtensionLoopReads[i].sequence = "extension"
        /\ \A n, m \in 1..Len(mreads) :
              /\ mreads[n].loop \in {"nested_type", "enum_type"}
              /\ mreads[m].loop = "GenerateExtension"
              => n < m

\* C30: every read of element i of a descriptor sequence made while a
\* message is generated has i smaller than the count of that sequence.
C30_ReadsInBounds ==
    \A n \in 1..Len(mreads) : mreads[n].index < mreads[n].count

-----------------------------------------------------------------------------
(* The index block of a file (specification SpecShape).                    *)

\* C25: the block of a file in the index is, in this order and each once:
\* the opening of the file's module; the re-export of globals and the
\* alias of the file's module as __file, with the module's name in it and
\* no text after it; the module __imports with one use per dependency of
\* the file, in dependency order; the module protrust with its re-export;
\* one module with its re-export per option import, in option order; and
\* the closing brace.
C25_IndexBlockContents ==
    upc = "generated" =>
        LET out == uout.mod.out
            d == Len(arg.file.dependency)
            o == Len(arg.imports)
            file_mod == Join(GetFileModName(arg.file))
        IN  /\ Len(out) = 6 + d + o
            /\ out[1].k = "mod.file_open"
            /\ out[1].args = <<Join(arg.file.name), file_mod>>
            /\ out[2].k = "mod.globals_and_self_alias"
            /\ SelfAliasText(out[2]).alias = "__file"
            /\ SelfAliasText(out[2]).modules = {file_mod}
            /\ SelfAliasText(out[2]).trailing = ""
            /\ out[3].k = "mod.imports_open"
            /\ \A i \in 1..d :
                  /\ out[3 + i].k = "mod.import_use"
                  /\ out[3 + i].args = <<Join(GetFileModNameOf(arg.file.dependency[i]))>>
            /\ out[4 + d].k = "mod.imports_close"
            /\ out[5 + d].k = "mod.protrust"
            /\ \A i \in 1..o :
                  /\ out[5 + d + i].k = "mod.option_import"
                  /\ out[5 + d + i].args = <<Join(arg.imports[i])>>
            /\ out[6 + d + o].k = "}"

-----------------------------------------------------------------------------
(* The member a field's code reads (specification SpecField).              *)

\* C26: whatever the variant and the name of a field, reserved words
\* included, the identifier after "self." in its merge arms, its size and
\* write contributions, its initialization check and its accessors is the
\* identifier its struct member is declared with, the escaped field name.
C26_MemberIdentifier ==
    upc \notin {"idle", "start"} =>
        \A n \in 1..Len(uout.out) :
            /\ uout.out[n].k = "struct_field" =>
                  StructMember(uout.out[n]) = EscapedText(arg.name)
            /\ \A member \in SelfMembers(uout.out[n]) : member = EscapedText(arg.name)

-----------------------------------------------------------------------------
(* The arms of merge_from (specification SpecMsg).                         *)

DefaultArms == PositionsOf("msg.merge_default") \cup PositionsOf("msg.merge_default_ext")

OwnArms == ArmsOf(SubSeq(mout.out, 1, OwnLen))

\* C27: when the fields of a message have pairwise distinct numbers in
\* 1..2^29-1, the tags of the arms of its merge_from match are pairwise
\* distinct; a packable repeated field has two arms, one for the
\* length-delimited tag and one for a tag of another wire type, any other
\* field has one; and the catch-all arm is printed exactly once, after all
\* the arms of the fields and as the last arm of the match.
C27_MergeArmsUnambiguous ==
    (/\ mpc = "done"
     /\ \A i, j \in DOMAIN msg.field :
           i # j => msg.field[i].number # msg.field[j].number
     /\ \A i \in DOMAIN msg.field : msg.field[i].number \in 1..536870911)
    => LET open == CHOOSE n \in 1..OwnLen : mout.out[n].k = "msg.merge_match_open"
       IN  /\ Cardinality(PositionsOf("msg.merge_match_open")) = 1
           /\ \A a, b \in DOMAIN OwnArms : a # b => OwnArms[a].tag # OwnArms[b].tag
           /\ \A n \in 1..OwnLen :
                 MergeArms(mout.out[n]) # <<>> => n \in (open + 1)..(open + Len(msg.field))
           /\ \A i \in DOMAIN msg.field :
                 LET field == msg.field[i]
                     arms == MergeArms(mout.out[open + i])
                     tags == {arms[a].tag : a \in DOMAIN arms}
                 IN  IF is_packable(field)
                     THEN /\ Len(arms) = 2
                          /\ TagText(field, WT_LENGTH_DELIMITED) \in tags
                          /\ \E wt \in {WT_VARINT, WT_BIT64, WT_BIT32} :
                                tags = {TagText(field, WT_LENGTH_DELIMITED),
                                        TagText(field, wt)}
                     ELSE /\ Len(arms) = 1
                          /\ \E wt \in 0..5 : tags = {TagText(field, wt)}
           /\ DefaultArms = {open + Len(msg.field) + 1}
           /\ mout.out[open + Len(msg.field) + 2].k = "}"

\* a message with a string field numbered 7 and a packed field numbered
\* 2^29-1 has been generated: three arms, the last two of the packed field
C27_Witness ==
    /\ mpc = "done"
    /\ Len(msg.field) = 2
    /\ msg.field[2].number = 536870911
    /\ is_packable(msg.field[2])
    /\ ~is_packable(msg.field[1])
    /\ Len(OwnArms) = 3
    /\ OwnArms[1].tag = "58"
    /\ OwnArms[2].tag = "4294967290"
    /\ OwnArms[3].tag = "4294967288"

-----------------------------------------------------------------------------
(* The imports a file's types need (specification SpecShape).              *)

\* the fields of the messages of the file, nested ones included
FieldsOfFile ==
    LET types == TypesOfFile(arg.file)
    IN  UNION {{types[t].type.field[i] : i \in DOMAIN types[t].type.field} :
                  t \in {t \in DOMAIN types : types[t].descriptor = "message"}}

\* the typed parts of a field whose type is a message or an enum of
\* another file: the field, or the key and the value of a map
ForeignParts(field) ==
    {part \in (IF field.is_map THEN {field.map_key, field.map_value} ELSE {field}) :
        /\ part.type \in {"MESSAGE", "GROUP", "ENUM"}
        /\ part.target.file # arg.file.name}

\* the modules the __imports block of the file's part of the index declares
DeclaredImports ==
    {uout.mod.out[n].args[1] :
        n \in {n \in DOMAIN uout.mod.out : uout.mod.out[n].k = "mod.import_use"}}

\* C28: the type of every field of the file, at any depth, is printed in
\* its struct member, and when the type of the field, or of the key or the
\* value of a map, is a message or an enum of another file g, the module
\* after "__imports::" in its path is one the file's __imports block
\* declares, also when g is visible only through a public import of a
\* direct dependency.
C28_ImportCoverage ==
    upc = "generated" =>
        \A field \in FieldsOfFile :
            /\ \E n \in DOMAIN uout.file.out :
                  /\ uout.file.out[n].k = "struct_field"
                  /\ uout.file.out[n].args = <<Join(GetFieldName(field)), GetFieldType(field)>>
            /\ \A part \in ForeignParts(field) :
                  \E module \in DeclaredImports :
                      GetRustType(part) =
                          "__file::__imports::" \o module \o "::"
                              \o ParentsPath(part.target.containing,
                                             Len(part.target.containing))
                              \o Join(Escape(part.target.name))

-----------------------------------------------------------------------------
(* The names of the modules of the index (specification Spec).             *)

\* the Prints that open the module of a file in mod.rs, in order
FileModules ==
    IF streams = <<>> THEN <<>>
    ELSE SelectSeq(streams[ModStream].out, LAMBDA r : r.k = "mod.file_open")

\* C29: the modules opened in mod.rs are those of the files handled so
\* far, in order, each named by GetFileModName, and two files of the
\* request with different descriptor names get modules with different
\* names.
C29_ModuleNamesUnique ==
    /\ Len(FileModules) <= Len(files)
    /\ \A i \in DOMAIN FileModules :
          /\ FileModules[i].args[2] = Join(GetFileModName(files[i]))
          /\ \A j \in DOMAIN FileModules :
                files[i].name # files[j].name =>
                    FileModules[i].args[2] # FileModules[j].args[2]

====
